---- MODULE Spec2Model ----
(***************************************************************************)
(* Multi-session WhatsApp worker (wa-worker): InstanceManager,             *)
(* InstanceLockCoordinator, ConnectionRunner and OutboundQueueRunner of    *)
(* src/unnamed/part_003, as a state machine.                               *)
(*                                                                         *)
(* Every async function is cut at its awaits: one action is one            *)
(* synchronous segment of a handler, from the event (or the resumption of  *)
(* an await) to the next await.  The outcome of an awaited request is      *)
(* chosen when the function resumes.                                       *)
(*                                                                         *)
(* A runtime object (InstanceRuntime + ConnectionRunner +                  *)
(* OutboundQueueRunner) is named by <<id, gen>>: gen counts the objects    *)
(* getOrCreateRuntime has built for the id.  runtimes[id] is the gen the   *)
(* manager's map holds, 0 when it holds none; objects that left the map    *)
(* live on while a socket, a timer or an in-flight call refers to them.    *)
(*                                                                         *)
(* What the model leaves to the environment:                               *)
(*  - a socket is closed by the peer (SockClose) or ended by the process   *)
(*    (EndSocket); the close event the library may emit for a socket the   *)
(*    process ended finds intentionalStop set and changes no field, so it  *)
(*    is no action;                                                        *)
(*  - fs.rm of the auth directory succeeds;                                *)
(*  - the ids of an eligible list are distinct; runtime.priority, logs,    *)
(*    status posts' bodies and message payloads are not state;             *)
(*  - the loops of discoveryCycle and shutdown are cut before every        *)
(*    ensureRunning and stopGracefully call, so the model allows other     *)
(*    handlers between two calls of a loop even where the code has no      *)
(*    await there.                                                         *)
(***************************************************************************)
EXTENDS Integers, Sequences, FiniteSets, TLC

\* ---------------------------------------------------------------- bounds
NumIds == 3        \* session ids known to the control plane
MaxGen == 2        \* runtime objects built per session id
MaxSock == 2       \* sockets made per session id
MaxClock == 3      \* clock readings
TimeStep == 30000  \* ms between two clock readings
MaxBatch == 1      \* queued messages per poll
MaxPolled == 2     \* queued messages per poll of a session that stays open
MaxBadMac == 2     \* signal-session errors of inbound messages kept in a window
MaxUpsert == 2     \* messages of one messages.upsert event
MaxJids == 1       \* contact JIDs of a session whose socket closes and reopens
MaxContacts == 501 \* distinct contact JIDs resolved one after the other
MaxLen == 4        \* symbols of a string
MaxSaves == 2      \* save() calls of one alias store in flight
MaxRestarts == 1   \* alias stores built over the same file after the first

\* ------------------------------------------------------ program constants
STOP_COOLDOWN_MS == 60000
DECRYPT_RETRY_MAX_ATTEMPTS == 3
SESSION_REFRESH_BACKOFF_MS == <<1000, 2000, 5000>>
RECONNECT_DELAYS_MS == <<2000, 5000, 10000, 20000, 40000, 60000>>
FALLBACK_MAX_ACTIVE_INSTANCES == 0
BAD_MAC_WINDOW_MS == 60000
\* Math.max(1, Number(process.env.BAD_MAC_THRESHOLD) || 20): run with
\* BAD_MAC_THRESHOLD=2 in the environment.
BAD_MAC_THRESHOLD == 2
BAD_MAC_COOLDOWN_MS == 300000
CONTACT_RESOLVE_ERROR_COOLDOWN_MS == 60000
CONTACT_RESOLVE_DUPLICATE_COOLDOWN_MS == 300000

Ids == 1..NumIds
Gens == 1..MaxGen
SockNs == 1..MaxSock
Priorities == {5, 10}
EnsureCallers == {"disc", "timer", "wipe"}
StopCallers == {"disc", "lock", "shut"}

VARIABLES
  now,          \* Date.now()
  cp,           \* control plane: [n |-> max_active_instances, list |-> eligible instances]
  desiredIds,   \* InstanceManager.desiredIds
  runtimes,     \* InstanceManager.runtimes: id -> gen in the map, 0 = no entry
  created,      \* id -> number of runtime objects built so far
  ownership,    \* InstanceLockCoordinator.ownership: set of ids with an entry
  renewTimers,  \* id -> number of active renewInterval timers
  authDir,      \* id -> the auth directory <AUTH_BASE>/<id> exists
  conn,         \* id -> gen -> ConnectionRunner fields
  out,          \* id -> gen -> OutboundQueueRunner fields and the position of its tick
  socks,        \* id -> n -> [gen, st]: the sockets makeWASocket returned
  ens,          \* id -> caller -> in-flight ensureRunning call
  stp,          \* id -> caller -> in-flight InstanceManager.stopGracefully call
  renew,        \* id -> in-flight renew request
  hand,         \* id -> gen -> event handlers waiting at an await
  disc,         \* the discovery cycle
  hist,         \* what the running and the previous discovery cycle called
  alias,        \* one IdentityAliasStore and the file it persists to
  call,         \* the last call of a pure function: its input and its results
  shut          \* InstanceManager.shutdown: isShuttingDown and the position of the call

\* The manager, its runtimes and the lock coordinator ...
mgrVars == <<now, cp, desiredIds, runtimes, created, ownership, renewTimers, authDir,
             conn, out, socks, ens, stp, renew, hand, disc, hist>>
\* ... and what their steps leave alone: the helpers that keep no reference
\* to them, and the shutdown.
libVars == <<alias, call, shut>>
vars == <<mgrVars, libVars>>

\* ----------------------------------------------------------- constructors
NewConnection ==
  [sock |-> 0, connecting |-> FALSE, connected |-> FALSE, connectedAt |-> 0,
   intentionalStop |-> FALSE, reconnectAttempt |-> 0, reconnectTimeout |-> FALSE,
   badMacTimestamps |-> <<>>, badMacBreakerUntil |-> 0, badMacBreakerRunning |-> FALSE,
   contactResolveCache |-> {}]

\* sent: whether the step the tick made last invoked sock.sendMessage, and
\* what connected was at the call ("no", "connected", "notConnected").
NewOutbound ==
  [interval |-> FALSE, processing |-> FALSE, pc |-> "idle", attempt |-> 0,
   queue |-> <<>>, dest |-> <<>>, err |-> "", sent |-> "no"]

NoShutdown == [pc |-> "off", ids |-> <<>>, cur |-> 0]
NoSock == [gen |-> 0, st |-> "none"]
IdleCall == [pc |-> "idle", gen |-> 0, from |-> 0]
NoHandlers == [open |-> FALSE, close |-> "none", trip |-> FALSE, wipe |-> "idle",
               upsert |-> [pc |-> "idle", queue |-> <<>>], resolve |-> 0]
IdleDisc == [pc |-> "idle", n |-> 0, list |-> <<>>, targets |-> <<>>, k |-> 0, visited |-> {}]
NoHist == [on |-> FALSE, acq |-> {}, stops |-> {}, open |-> {}, failed |-> {},
           prevFailed |-> {}, repeat |-> FALSE, quiet |-> FALSE, lastN |-> 0,
           watch |-> FALSE, lost |-> {}, reacq |-> {},
           tick |-> {}, polled |-> <<>>, log |-> <<>>,
           timed |-> FALSE, due |-> {},
           calls |-> FALSE, last |-> [op |-> "none", id |-> 0, res |-> "none", flip |-> FALSE],
           trips |-> {}, stale |-> {}, nulls |-> {}]

\* Eligible lists: sequences of distinct ids, each with a priority.
RECURSIVE ListsOver(_)
ListsOver(S) ==
  {<<>>} \cup
  UNION {{<<[id |-> i, priority |-> p]>> \o t : t \in ListsOver(S \ {i})}
           : <<i, p>> \in S \X Priorities}

ControlPlanes(S, maxN) == [n : 0..maxN, list : ListsOver(S)]

\* ------------------------------------------------------- pure functions
Min(a, b) == IF a < b THEN a ELSE b

\* A comparator that breaks ties by the later index.
ComesBeforeLater(a, b) ==
  \/ a.priority > b.priority
  \/ a.priority = b.priority /\ a.index > b.index

\* The comparator of stablePrioritize on entries [id, priority, index].
ComesBefore(a, b) ==
  \/ a.priority > b.priority
  \/ a.priority = b.priority /\ a.index < b.index

RECURSIVE InsertSorted(_, _)
InsertSorted(e, s) ==
  IF s = <<>> THEN <<e>>
  ELSE IF ComesBefore(e, Head(s)) THEN <<e>> \o s
  ELSE <<Head(s)>> \o InsertSorted(e, Tail(s))

RECURSIVE SortFrom(_, _)
SortFrom(items, k) ==
  IF k > Len(items) THEN <<>>
  ELSE InsertSorted(items[k], SortFrom(items, k + 1))

stablePrioritize(instances) ==
  SortFrom([k \in 1..Len(instances) |->
              [id |-> instances[k].id, priority |-> instances[k].priority, index |-> k]], 1)

\* An unavailable /worker-settings taken as a limit of one.
fallbackOne(settings) == IF settings > 0 THEN settings ELSE IF settings < 0 THEN 1 ELSE 0

\* settings = -1 stands for an unavailable /worker-settings (null).
getMaxActiveInstances(settings) ==
  LET v == IF settings < 0 THEN FALLBACK_MAX_ACTIVE_INSTANCES ELSE settings
  IN IF v > 0 THEN v ELSE 0

\* A slice that takes nothing when there is no limit.
SliceNone(ordered, maxActiveInstances) ==
  IF maxActiveInstances > 0
    THEN SubSeq(ordered, 1, Min(maxActiveInstances, Len(ordered)))
    ELSE <<>>

\* A slice that takes one entry more than the limit.
SliceOneMore(ordered, maxActiveInstances) ==
  IF maxActiveInstances > 0
    THEN SubSeq(ordered, 1, Min(maxActiveInstances + 1, Len(ordered)))
    ELSE ordered

SliceTargets(ordered, maxActiveInstances) ==
  IF maxActiveInstances > 0
    THEN SubSeq(ordered, 1, Min(maxActiveInstances, Len(ordered)))
    ELSE ordered

isBusy(c) == c.connecting \/ c.connected

\* A canStop without the cooldown.
canStopAlways(c) == TRUE

canStop(c) ==
  IF ~c.connected THEN TRUE
  ELSE IF c.connectedAt = 0 THEN TRUE
  ELSE now - c.connectedAt >= STOP_COOLDOWN_MS

\* sock.end(): the socket n of the session is closed by this process.
ClosedSock == [gen |-> 0, st |-> "closed"]
EndSocket(ss, n) == IF n = 0 THEN ss ELSE [ss EXCEPT ![n] = ClosedSock]

LiveSocks(i) == {n \in SockNs : socks[i][n].st \in {"connecting", "open"}}

\* ---------------------------------------------------------------- strings
\* A string is a sequence of symbols.  The three JID suffixes the code
\* tests for are symbols of their own, so includes('@g.us') is "the symbol
\* occurs" and endsWith('@lid') is "the last symbol is"; "1" is a digit,
\* " " white space and "a" any other character.
Chars == {"1", "-", "a", " ", "@lid", "@s.whatsapp.net", "@g.us"}
Digits == {"1"}

RECURSIVE StringsUpTo(_)
StringsUpTo(n) ==
  IF n = 0 THEN {<<>>}
  ELSE LET shorter == StringsUpTo(n - 1)
       IN shorter \cup {Append(s, c) : s \in {t \in shorter : Len(t) = n - 1}, c \in Chars}

Strings == StringsUpTo(MaxLen)

\* null / undefined: no string.
Null == <<"null">>

\* String(value || '')
StringOr(value) == IF value = Null THEN <<>> ELSE value

RECURSIVE TrimStart(_)
TrimStart(s) == IF s # <<>> /\ Head(s) = " " THEN TrimStart(Tail(s)) ELSE s

RECURSIVE TrimEnd(_)
TrimEnd(s) ==
  IF s # <<>> /\ s[Len(s)] = " " THEN TrimEnd(SubSeq(s, 1, Len(s) - 1)) ELSE s

\* String.prototype.trim
Trim(s) == TrimEnd(TrimStart(s))

includes(s, c) == \E k \in 1..Len(s) : s[k] = c
endsWith(s, c) == s # <<>> /\ s[Len(s)] = c

IsDigit(c) == c \in Digits

\* value.replace(/\D/g, '')
normalizeDigits(value) == SelectSeq(StringOr(value), IsDigit)

\* /^\d+-\d+$/.test(s)
DigitsDashDigits(s) ==
  \E k \in 2..(Len(s) - 1) :
    /\ s[k] = "-"
    /\ \A j \in 1..Len(s) : j # k => IsDigit(s[j])

\* A normalizeOutboundTo without the test for a destination that already
\* carries its suffix.
appendingOutboundTo(to) ==
  LET originalTo == Trim(StringOr(to))
  IN IF originalTo = <<>>
       THEN [error |-> "missing-to", originalTo |-> originalTo, toNormalized |-> Null]
     ELSE IF normalizeDigits(originalTo) # <<>>
       THEN [error |-> "", originalTo |-> originalTo,
             toNormalized |-> Append(originalTo, "@s.whatsapp.net")]
     ELSE [error |-> "", originalTo |-> originalTo, toNormalized |-> originalTo]

\* normalizeOutboundTo(message), with to = message.to.
normalizeOutboundTo(to) ==
  LET originalTo == Trim(StringOr(to))
      digits == normalizeDigits(originalTo)
  IN IF originalTo = <<>>
       THEN [error |-> "missing-to", originalTo |-> originalTo, toNormalized |-> Null]
     ELSE IF includes(originalTo, "@g.us") \/ includes(originalTo, "@s.whatsapp.net")
       THEN [error |-> "", originalTo |-> originalTo, toNormalized |-> originalTo]
     ELSE IF digits # <<>> /\ digits = originalTo
       THEN [error |-> "", originalTo |-> originalTo,
             toNormalized |-> Append(digits, "@s.whatsapp.net")]
     ELSE IF DigitsDashDigits(originalTo)
       THEN [error |-> "", originalTo |-> originalTo,
             toNormalized |-> Append(originalTo, "@g.us")]
     ELSE [error |-> "", originalTo |-> originalTo, toNormalized |-> originalTo]

NoCall == [fn |-> "none", x |-> <<>>, r1 |-> <<>>, r2 |-> <<>>]

\* ---------------------------------------------------- identity alias store
\* A JavaScript object used as a map: a set of <<key, value>> pairs with
\* at most one pair per key.
Get(obj, key) ==
  IF \E e \in obj : e[1] = key THEN (CHOOSE e \in obj : e[1] = key)[2] ELSE Null

Put(obj, key, value) == {e \in obj : e[1] # key} \cup {<<key, value>>}

EmptyData == [lid_to_pn |-> {}, pn_to_lid |-> {}]

\* The file at filePath: readFile fails with ENOENT while nothing saved it.
NoFile == [exists |-> FALSE, data |-> EmptyData]

\* new IdentityAliasStore(filePath), and the file at filePath.  saving counts the save() calls in flight, ret
\* is what the rememberPair call that returned last returned.
NewAliasStore ==
  [loaded |-> FALSE, loading |-> FALSE, data |-> EmptyData, file |-> NoFile,
   saving |-> 0, ret |-> "none", restarts |-> 0]

\* The JIDs the message handlers pass to the store.
JidInputs ==
  {<<"a", "@lid">>, <<"a", "a", "@lid">>, <<" ", "a", "@lid">>,
   <<"1", "@s.whatsapp.net">>, <<"1", "1", "@s.whatsapp.net">>,
   <<"1", "@s.whatsapp.net", " ">>, <<"a">>, <<>>, Null}

\* The sessions of the run: the ids the process holds state for.
Sessions == DOMAIN runtimes

\* ------------------------------------------------------------------ Init
InitFrom(S, cps, h) ==
  /\ now = TimeStep
  /\ cp \in cps
  /\ desiredIds = {}
  /\ runtimes = [i \in S |-> 0]
  /\ created = [i \in S |-> 0]
  /\ ownership = {}
  /\ renewTimers = [i \in S |-> 0]
  /\ authDir = [i \in S |-> FALSE]
  /\ conn = [i \in S |-> [g \in Gens |-> NewConnection]]
  /\ out = [i \in S |-> [g \in Gens |-> NewOutbound]]
  /\ socks = [i \in S |-> [n \in SockNs |-> NoSock]]
  /\ ens = [i \in S |-> [b \in EnsureCallers |-> IdleCall]]
  /\ stp = [i \in S |-> [b \in StopCallers |-> IdleCall]]
  /\ renew = [i \in S |-> "idle"]
  /\ hand = [i \in S |-> [g \in Gens |-> NoHandlers]]
  /\ disc = IdleDisc
  /\ hist = h
  /\ alias = NewAliasStore
  /\ call = NoCall
  /\ shut = NoShutdown

InitWith(S, cps, history) == InitFrom(S, cps, [NoHist EXCEPT !.on = history])

\* ------------------------------------------------- history of the cycles
\* An action outside the discovery cycle: the next cycle is not back-to-back.
Foreign == IF hist.on THEN [hist EXCEPT !.quiet = FALSE] ELSE hist

\* A request or an event of session i ended with res: recorded, in a run
\* that keeps the calls (hist.calls), until the next one; flip tells two
\* records in a row apart.  stale holds the sessions whose renew request
\* in flight was sent for an ownership entry that setOwnership has since
\* replaced.
Answered(h, op, i, res) ==
  IF h.calls
    THEN [h EXCEPT !.last = [op |-> op, id |-> i, res |-> res, flip |-> ~h.last.flip],
                   !.stale = IF op = "renew" THEN @ \ {i}
                             ELSE IF op = "acquire" /\ res = "acquired" /\ renew[i] = "sent"
                               THEN @ \cup {i}
                             ELSE @]
    ELSE h

\* ------------------------------------------------------ lock coordinator
\* A setOwnership that records no entry.
setOwnershipNone(own, i) == own

\* setOwnership: the previous entry's interval is cleared, a new one is set.
setOwnershipOwned(own, i) == own \cup {i}
setOwnershipTimers(own, tm, i) ==
  [tm EXCEPT ![i] = (IF i \in own THEN @ - 1 ELSE @) + 1]

\* clearOwnership(instanceId, {releaseRemote: false})
\* A clearOwnership that keeps the entry.
keepOwnershipOwned(own, i) == own

clearOwnershipOwned(own, i) == own \ {i}
clearOwnershipTimers(own, tm, i) ==
  [tm EXCEPT ![i] = IF i \in own THEN @ - 1 ELSE @]

\* ------------------------------------------------------- runner objects
\* A runner something still refers to after the step: the manager's map, a
\* live socket's handlers, a handler or a connect() waiting at an await,
\* its reconnect timer, its queue's timer or tick.
Referenced(i, g, c) ==
  \/ runtimes'[i] = g
  \/ \E n \in SockNs : socks'[i][n].gen = g
  \/ hand'[i][g] # NoHandlers
  \/ \E by \in EnsureCallers :
       ens'[i][by].pc # "idle" /\ (ens'[i][by].gen = g \/ ens'[i][by].from = g)
  \/ c.reconnectTimeout
  \/ out'[i][g] # NewOutbound

\* The runners after a step: one nothing refers to any more is garbage,
\* and garbage is kept as the constructor left it.  The last conjunct of
\* every action.
SetConn(cn) ==
  conn' = [i \in DOMAIN cn |->
             [g \in Gens |-> IF Referenced(i, g, cn[i][g]) THEN cn[i][g] ELSE NewConnection]]

\* The breaker of a runner of session i tripped: recorded, in a run that
\* keeps the calls, with the end of the cooldown it starts.
Tripped(h, i, trips) ==
  IF h.calls /\ trips
    THEN [h EXCEPT !.trips = @ \cup {[i |-> i, until |-> now + BAD_MAC_COOLDOWN_MS]}]
    ELSE h

\* ------------------------------------------------------ discovery cycle
AdvanceDisc(d) ==
  LET k == d.k + 1
  IN [d EXCEPT !.k = k, !.pc = IF k > Len(d.targets) THEN "stops" ELSE "loop"]

\* The cycle after one of the ensureRunning calls moved: the call of the
\* cycle itself returned (finished) or is waiting; a runtime entry that is
\* new to the map is yet to be visited by the stop loop's iterator.
DiscAfterEnsure(by, i, fresh, finished) ==
  LET d == IF fresh THEN [disc EXCEPT !.visited = @ \ {i}] ELSE disc
  IN IF by # "disc" THEN d
     ELSE IF finished THEN AdvanceDisc(d)
     ELSE [d EXCEPT !.pc = "wait"]

DiscAfterStop(by, finished) ==
  IF by # "disc" THEN disc
  ELSE [disc EXCEPT !.pc = IF finished THEN "stops" ELSE "waitstop"]

HistFailed(by, i) ==
  IF by = "disc" THEN [hist EXCEPT !.failed = IF hist.on THEN @ \cup {i} ELSE @]
  ELSE Foreign

HistStep(by) == IF by = "disc" THEN hist ELSE Foreign

\* The lock of session i was lost: recorded when the session was Open.
HistLost(i) ==
  IF hist.watch /\ runtimes[i] # 0 /\ conn[i][runtimes[i]].connected
    THEN [Foreign EXCEPT !.lost = @ \cup {i}]
    ELSE Foreign

\* The cycle reaches target i: recorded with the acquire it calls, if any.
HistReached(i) ==
  [hist EXCEPT !.acq = IF hist.on /\ i \notin ownership THEN @ \cup {i} ELSE @,
               !.lost = @ \ {i},
               !.reacq = IF i \in hist.lost THEN @ \cup {i} ELSE @]

\* --------------------------------------------------------- ensureRunning
\* tripBadMacCircuitBreaker(...).finally: the breaker of the runner that
\* tripped stops running once its wipeAuthAndRestart, and so the
\* ensureRunning that call awaits, has settled.
ConnAfterEnsure(cn, i, by) ==
  IF by = "wipe" /\ ens[i][by].from # 0
    THEN [cn EXCEPT ![i][ens[i][by].from].badMacBreakerRunning = FALSE]
    ELSE cn

\* getOrCreateRuntime, the busy check and connect() up to its first await,
\* with rt0 the map's entry for i and cn the runners when the segment
\* reaches them: everything but the runners ...
ConnectBody(i, by, rt0, cn, from) ==
  LET fresh == rt0 = 0
      g == IF fresh THEN created[i] + 1 ELSE rt0
  IN /\ fresh => created[i] < MaxGen
     /\ created' = [created EXCEPT ![i] = IF fresh THEN g ELSE @]
     /\ runtimes' = [runtimes EXCEPT ![i] = g]
     /\ IF isBusy(cn[i][g]) \/ cn[i][g].sock # 0
          THEN /\ ens' = [ens EXCEPT ![i][by] = IdleCall]
               /\ disc' = DiscAfterEnsure(by, i, fresh, TRUE)
          ELSE /\ ens' = [ens EXCEPT ![i][by] = [pc |-> "conn", gen |-> g, from |-> from]]
               /\ disc' = DiscAfterEnsure(by, i, fresh, FALSE)

\* ... and the runners.
ConnectConn(i, by, rt0, cn) ==
  LET g == IF rt0 = 0 THEN created[i] + 1 ELSE rt0
  IN IF isBusy(cn[i][g]) \/ cn[i][g].sock # 0
       THEN ConnAfterEnsure(cn, i, by)
       ELSE [cn EXCEPT ![i][g].intentionalStop = FALSE, ![i][g].connecting = TRUE]

\* ensureRunning(instanceId) up to its first await.
EnsureStart(i, by, rt0, cn, from) ==
  IF i \in ownership
    THEN ConnectBody(i, by, rt0, cn, from)
    ELSE /\ ens' = [ens EXCEPT ![i][by] = [pc |-> "acq", gen |-> 0, from |-> from]]
         /\ runtimes' = [runtimes EXCEPT ![i] = rt0]
         /\ disc' = DiscAfterEnsure(by, i, FALSE, FALSE)
         /\ UNCHANGED created

EnsureStartConn(i, by, rt0, cn) ==
  IF i \in ownership THEN ConnectConn(i, by, rt0, cn) ELSE cn

\* What the acquire request does: it answers acquired=true or
\* acquired=false, or it throws, with a 404 or with any other error.
LockAnswers == {"acquired", "refused", "notFound", "threw"}

\* An acquire that takes every answer for the lock.
acquireAlways(response) == TRUE

\* Whether acquire(instanceId) sets the ownership entry and returns true;
\* it returns false on acquired=false and on a 404, and throws on any
\* other error.
acquire(response) == response = "acquired"

\* lockCoordinator.acquire returned or threw, and ensureRunning goes on or
\* ends.
EnsureAcquired(i, by, response) ==
  /\ UNCHANGED libVars
  /\ ens[i][by].pc = "acq"
  /\ UNCHANGED <<now, cp, desiredIds, authDir, out, socks, stp, renew, hand>>
  /\ IF acquire(response)
       THEN /\ ownership' = setOwnershipOwned(ownership, i)
            /\ renewTimers' = setOwnershipTimers(ownership, renewTimers, i)
            /\ ConnectBody(i, by, runtimes[i], conn, ens[i][by].from)
            /\ hist' = Answered(HistStep(by), "acquire", i, response)
            /\ SetConn(ConnectConn(i, by, runtimes[i], conn))
       ELSE /\ ens' = [ens EXCEPT ![i][by] = IdleCall]
            /\ disc' = DiscAfterEnsure(by, i, FALSE, TRUE)
            /\ hist' = Answered(HistFailed(by, i), "acquire", i, response)
            /\ UNCHANGED <<ownership, renewTimers, runtimes, created>>
            /\ SetConn(ConnAfterEnsure(conn, i, by))

\* A connect() that removes an auth directory it finds.
flipAuthState(dirs, i) == [dirs EXCEPT ![i] = ~@]

\* useMultiFileAuthState(this.authPath) makes the auth directory.
useMultiFileAuthState(dirs, i) == [dirs EXCEPT ![i] = TRUE]

\* connect() resumed after its awaits: the socket is made and bound, or
\* the attempt threw (before or after the auth directory was made) and
\* ensureRunning releases the lock.
EnsureConnected(i, by, ok) ==
  /\ UNCHANGED libVars
  /\ ens[i][by].pc = "conn"
  /\ UNCHANGED <<now, cp, desiredIds, runtimes, created, ownership, renewTimers,
                 out, stp, renew, hand>>
  /\ LET g == ens[i][by].gen
     IN IF ok
          THEN \E n \in SockNs :
                 /\ socks[i][n].st = "none"
                 /\ \A m \in SockNs : m < n => socks[i][m].st # "none"
                 /\ socks' = [socks EXCEPT ![i][n] = [gen |-> g, st |-> "connecting"]]
                 /\ authDir' = useMultiFileAuthState(authDir, i)
                 /\ ens' = [ens EXCEPT ![i][by] = IdleCall]
                 /\ disc' = DiscAfterEnsure(by, i, FALSE, TRUE)
                 /\ hist' = HistStep(by)
                 /\ SetConn(ConnAfterEnsure([conn EXCEPT ![i][g].sock = n], i, by))
          ELSE LET cn == [conn EXCEPT ![i][g].connecting = FALSE, ![i][g].sock = 0]
               IN /\ hist' = HistFailed(by, i)
                  /\ authDir' \in {authDir, useMultiFileAuthState(authDir, i)}
                  /\ UNCHANGED socks
                  /\ IF i \in ownership
                       THEN /\ ens' = [ens EXCEPT ![i][by].pc = "rel"]
                            /\ disc' = disc
                            /\ SetConn(cn)
                       ELSE /\ ens' = [ens EXCEPT ![i][by] = IdleCall]
                            /\ disc' = DiscAfterEnsure(by, i, FALSE, TRUE)
                            /\ SetConn(ConnAfterEnsure(cn, i, by))

\* The release request of the connect-failure path answered.
EnsureReleased(i, by) ==
  /\ UNCHANGED libVars
  /\ ens[i][by].pc = "rel"
  /\ ownership' = clearOwnershipOwned(ownership, i)
  /\ renewTimers' = clearOwnershipTimers(ownership, renewTimers, i)
  /\ ens' = [ens EXCEPT ![i][by] = IdleCall]
  /\ disc' = DiscAfterEnsure(by, i, FALSE, TRUE)
  /\ hist' = HistStep(by)
  /\ UNCHANGED <<now, cp, desiredIds, runtimes, created, authDir, out, socks,
                 stp, renew, hand>>
  /\ SetConn(ConnAfterEnsure(conn, i, by))

\* --------------------------------------------------------- stopGracefully
\* ConnectionRunner.stopGracefully up to its await.
ConnectionStop(c) ==
  [c EXCEPT !.intentionalStop = TRUE, !.reconnectTimeout = FALSE, !.sock = 0,
            !.connecting = FALSE, !.connected = FALSE, !.connectedAt = 0,
            !.reconnectAttempt = 0]

\* The orders a Map may keep the keys S in.
Orders(S) ==
  {o \in [1..Cardinality(S) -> S] : \A x, y \in DOMAIN o : x # y => o[x] # o[y]}

\* releaseAll over the keys it copied, as far as its next request: release
\* returns at once for an id with no entry left.  own: the ownership map.
RECURSIVE ReleaseNext(_, _)
ReleaseNext(ids, own) ==
  IF ids = <<>> THEN [pc |-> "done", ids |-> <<>>, cur |-> 0]
  ELSE IF Head(ids) \in own THEN [pc |-> "waitrel", ids |-> Tail(ids), cur |-> Head(ids)]
  ELSE ReleaseNext(Tail(ids), own)

\* shutdown after a stopGracefully of its loop returned: the loop goes on,
\* or releaseAll copies the keys of ownership and makes its first request.
AfterStop(sh, own) ==
  IF sh.ids # <<>> THEN {[sh EXCEPT !.pc = "stops", !.cur = 0]}
  ELSE {ReleaseNext(order, own) : order \in Orders(own)}

\* shutdown after a stopGracefully call of this caller moved.
ShutAfterStop(by, returned, own) ==
  IF by = "shut" /\ returned THEN AfterStop(shut, own) ELSE {shut}

\* InstanceManager.stopGracefully(instanceId) up to its first await, with
\* own the ownership map when the segment starts: everything but the
\* runners ...
StopStart(i, by, own) ==
  LET g == runtimes[i]
  IN IF g = 0
       THEN /\ stp' = [stp EXCEPT ![i][by] =
                         IF i \in own THEN [pc |-> "rel", gen |-> 0, from |-> 0]
                         ELSE IdleCall]
            /\ disc' = DiscAfterStop(by, i \notin own)
            /\ UNCHANGED <<out, socks>>
       ELSE /\ out' = [out EXCEPT ![i][g].interval = FALSE]
            /\ socks' = [socks EXCEPT ![i] = EndSocket(@, conn[i][g].sock)]
            /\ stp' = [stp EXCEPT ![i][by] = [pc |-> "status", gen |-> g, from |-> 0]]
            /\ disc' = DiscAfterStop(by, FALSE)

\* ... and the runners.
StopConn(i) ==
  IF runtimes[i] = 0 THEN conn
  ELSE [conn EXCEPT ![i][runtimes[i]] = ConnectionStop(@)]

\* The DISCONNECTED status post answered: the runtime leaves the map and
\* the lock is released.
StopStatusDone(i, by) ==
  /\ UNCHANGED <<alias, call>>
  /\ shut' \in ShutAfterStop(by, i \notin ownership, ownership)
  /\ stp[i][by].pc = "status"
  /\ runtimes' = [runtimes EXCEPT ![i] = 0]
  /\ IF i \in ownership
       THEN /\ stp' = [stp EXCEPT ![i][by].pc = "rel"]
            /\ disc' = disc
       ELSE /\ stp' = [stp EXCEPT ![i][by] = IdleCall]
            /\ disc' = DiscAfterStop(by, TRUE)
  /\ hist' = HistStep(by)
  /\ UNCHANGED <<now, cp, desiredIds, created, ownership, renewTimers, authDir,
                 out, socks, ens, renew, hand>>
  /\ SetConn(conn)

\* The release request of stopGracefully answered.
StopReleased(i, by) ==
  /\ UNCHANGED <<alias, call>>
  /\ shut' \in ShutAfterStop(by, TRUE, clearOwnershipOwned(ownership, i))
  /\ stp[i][by].pc = "rel"
  /\ ownership' = clearOwnershipOwned(ownership, i)
  /\ renewTimers' = clearOwnershipTimers(ownership, renewTimers, i)
  /\ stp' = [stp EXCEPT ![i][by] = IdleCall]
  /\ disc' = DiscAfterStop(by, TRUE)
  /\ hist' = HistStep(by)
  /\ UNCHANGED <<now, cp, desiredIds, runtimes, created, authDir, out, socks,
                 ens, renew, hand>>
  /\ SetConn(conn)

\* --------------------------------------------------------------- shutdown
\* shutdown({signal}): isShuttingDown is set, the discovery interval is
\* cleared (DiscoveryStart), the keys of runtimes are copied; with no key,
\* releaseAll follows at once.
ShutdownStart ==
  /\ shut.pc = "off"
  /\ \E order \in Orders({i \in Sessions : runtimes[i] # 0}) :
       shut' \in AfterStop([pc |-> "stops", ids |-> order, cur |-> 0], ownership)
  /\ UNCHANGED <<mgrVars, alias, call>>

\* The loop of shutdown calls stopGracefully(instanceId), which returns at
\* once for an id with no runtime and no lock.
ShutdownStop ==
  /\ shut.pc = "stops"
  /\ LET i == Head(shut.ids)
         calling == [shut EXCEPT !.pc = "waitstop", !.ids = Tail(@), !.cur = i]
     IN /\ stp[i]["shut"].pc = "idle"
        /\ IF runtimes[i] = 0 /\ i \notin ownership
             THEN shut' \in AfterStop(calling, ownership)
             ELSE shut' = calling
        /\ StopStart(i, "shut", ownership)
        /\ hist' = Foreign
        /\ UNCHANGED <<now, cp, desiredIds, runtimes, created, ownership, renewTimers,
                       authDir, ens, renew, hand, alias, call>>
        /\ SetConn(StopConn(i))

\* The release request of releaseAll answered or threw: clearOwnership,
\* and releaseAll goes on.
ShutdownReleased ==
  /\ shut.pc = "waitrel"
  /\ ownership' = clearOwnershipOwned(ownership, shut.cur)
  /\ renewTimers' = clearOwnershipTimers(ownership, renewTimers, shut.cur)
  /\ shut' = ReleaseNext(shut.ids, clearOwnershipOwned(ownership, shut.cur))
  /\ hist' = Answered(Foreign, "release", shut.cur, "released")
  /\ UNCHANGED <<now, cp, desiredIds, runtimes, created, authDir, conn, out, socks,
                 ens, stp, renew, hand, disc, alias, call>>

\* ------------------------------------------------------------ lock renew
\* The renewInterval timer fired: renew() up to its request.
RenewFire(i) ==
  /\ UNCHANGED libVars
  /\ renewTimers[i] > 0
  /\ i \in ownership
  /\ renew[i] = "idle"
  /\ renew' = [renew EXCEPT ![i] = "sent"]
  /\ hist' = Foreign
  /\ UNCHANGED <<now, cp, desiredIds, runtimes, created, ownership, renewTimers,
                 authDir, conn, out, socks, ens, stp, hand, disc>>

\* renew() after its request, when it did not answer acquired=false: the
\* entry stays.
RenewRetained(i, res) ==
  /\ UNCHANGED libVars
  /\ renew[i] = "sent"
  /\ renew' = [renew EXCEPT ![i] = "idle"]
  /\ hist' = Answered(Foreign, "renew", i, res)
  /\ UNCHANGED <<now, cp, desiredIds, runtimes, created, ownership, renewTimers,
                 authDir, conn, out, socks, ens, stp, hand, disc>>

\* The renew request answered acquired=true (lockToken and instanceOwner
\* of the entry are no state of the model).
RenewKept(i) == RenewRetained(i, "acquired")

\* The renew request threw (an HTTP error, a timeout): renew() rejects
\* and the timer's catch logs lock_renew_error.
RenewThrew(i) == RenewRetained(i, "threw")

\* The renew request answered acquired=false: clearOwnership, then
\* onLockLost -> handleLockLost -> stopGracefully.
RenewRefused(i) ==
  /\ UNCHANGED libVars
  /\ renew[i] = "sent"
  /\ stp[i]["lock"].pc = "idle"
  /\ renew' = [renew EXCEPT ![i] = "idle"]
  /\ ownership' = clearOwnershipOwned(ownership, i)
  /\ renewTimers' = clearOwnershipTimers(ownership, renewTimers, i)
  /\ StopStart(i, "lock", clearOwnershipOwned(ownership, i))
  /\ hist' = Answered(HistLost(i), "renew", i, "refused")
  /\ UNCHANGED <<now, cp, desiredIds, runtimes, created, authDir, ens, hand>>
  /\ SetConn(StopConn(i))

\* -------------------------------------------------------- discovery cycle
\* The discovery timer (or start()) invoked discoveryCycle and no cycle was
\* running: both requests are sent.
\* A flag that is never seen set.
neverRunning(d) == FALSE

\* this.discoveryRunning: set from the entry of a cycle to its finally.
discoveryRunning(d) == d.pc # "idle"

\* discoveryCycle was invoked while a cycle is in flight: it returns.
DiscoveryBusy ==
  /\ UNCHANGED libVars
  /\ shut.pc = "off"
  /\ discoveryRunning(disc)
  /\ hist' = Answered(hist, "discovery", 0, "busy")
  /\ UNCHANGED <<now, cp, desiredIds, runtimes, created, ownership, renewTimers,
                 authDir, conn, out, socks, ens, stp, renew, hand, disc>>

DiscoveryStart ==
  /\ UNCHANGED libVars
  /\ shut.pc = "off"
  /\ ~discoveryRunning(disc)
  /\ disc' = [disc EXCEPT !.pc = "fetch"]
  /\ UNCHANGED <<now, cp, desiredIds, runtimes, created, ownership, renewTimers,
                 authDir, conn, out, socks, ens, stp, renew, hand, hist>>

\* /eligible-instances failed: the cycle's catch and finally.
DiscoveryFailed ==
  /\ UNCHANGED libVars
  /\ disc.pc = "fetch"
  /\ disc' = IdleDisc
  /\ hist' = Answered(Foreign, "discovery", 0, "failed")
  /\ UNCHANGED <<now, cp, desiredIds, runtimes, created, ownership, renewTimers,
                 authDir, conn, out, socks, ens, stp, renew, hand>>

\* Both requests answered (settingsOk: /worker-settings did not fail):
\* the targets are computed and desiredIds replaced.
DiscoveryFetched(settingsOk) ==
  /\ UNCHANGED libVars
  /\ disc.pc = "fetch"
  /\ LET maxActiveInstances == getMaxActiveInstances(IF settingsOk THEN cp.n ELSE -1)
         ordered == stablePrioritize(cp.list)
         targetInstances == SliceTargets(ordered, maxActiveInstances)
         targetIds == [k \in 1..Len(targetInstances) |-> targetInstances[k].id]
     IN /\ desiredIds' = {targetIds[k] : k \in 1..Len(targetIds)}
        /\ disc' = [pc |-> IF Len(targetIds) = 0 THEN "stops" ELSE "loop",
                    n |-> maxActiveInstances, list |-> cp.list,
                    targets |-> targetIds, k |-> 1, visited |-> {}]
        /\ hist' = Answered(
                     IF ~hist.on THEN [hist EXCEPT !.reacq = {}]
                     ELSE [hist EXCEPT !.acq = {}, !.stops = {}, !.open = {},
                             !.failed = {}, !.prevFailed = hist.failed,
                             !.repeat = hist.quiet /\ hist.lastN = maxActiveInstances,
                             !.quiet = TRUE, !.lastN = maxActiveInstances, !.reacq = {}],
                     "discovery", 0, IF settingsOk THEN "fetched" ELSE "noSettings")
  /\ UNCHANGED <<now, cp, runtimes, created, ownership, renewTimers, authDir,
                 conn, out, socks, ens, stp, renew, hand>>

\* The loop over the targets calls ensureRunning for the next one.
DiscEnsure ==
  /\ UNCHANGED libVars
  /\ disc.pc = "loop"
  /\ LET i == disc.targets[disc.k]
     IN /\ ens[i]["disc"].pc = "idle"
        /\ EnsureStart(i, "disc", runtimes[i], conn, 0)
        /\ hist' = HistReached(i)
        /\ UNCHANGED <<now, cp, desiredIds, ownership, renewTimers, authDir, out,
                       socks, stp, renew, hand>>
        /\ SetConn(EnsureStartConn(i, "disc", runtimes[i], conn))

\* The loop over runtimes.values() reaches a runtime outside the desired
\* set that canStop refuses.
DiscSkip(i) ==
  /\ UNCHANGED libVars
  /\ disc.pc = "stops"
  /\ runtimes[i] # 0
  /\ i \notin disc.visited
  /\ i \notin desiredIds
  /\ ~canStop(conn[i][runtimes[i]])
  /\ disc' = [disc EXCEPT !.visited = @ \cup {i}]
  /\ UNCHANGED <<now, cp, desiredIds, runtimes, created, ownership, renewTimers,
                 authDir, conn, out, socks, ens, stp, renew, hand, hist>>

\* ... and one that canStop allows: stopGracefully is called.
DiscStop(i) ==
  /\ UNCHANGED libVars
  /\ disc.pc = "stops"
  /\ runtimes[i] # 0
  /\ i \notin disc.visited
  /\ i \notin desiredIds
  /\ canStop(conn[i][runtimes[i]])
  /\ stp[i]["disc"].pc = "idle"
  /\ StopStart(i, "disc", ownership)
  /\ hist' = IF ~hist.on THEN hist
              ELSE [hist EXCEPT !.stops = @ \cup {i},
                                !.open = IF conn[i][runtimes[i]].connected
                                           THEN @ \cup {i} ELSE @]
  /\ UNCHANGED <<now, cp, desiredIds, runtimes, created, ownership, renewTimers,
                 authDir, ens, renew, hand>>
  /\ SetConn(StopConn(i))

\* The iterator is exhausted: the cycle's finally.
DiscoveryEnd ==
  /\ UNCHANGED libVars
  /\ disc.pc = "stops"
  /\ \A i \in Sessions :
       runtimes[i] # 0 /\ i \notin disc.visited /\ i \notin desiredIds
         => ~canStop(conn[i][runtimes[i]])
  /\ disc' = IdleDisc
  /\ UNCHANGED <<now, cp, desiredIds, runtimes, created, ownership, renewTimers,
                 authDir, conn, out, socks, ens, stp, renew, hand, hist>>

\* ------------------------------------------------------------ environment
ClockTick ==
  /\ UNCHANGED libVars
  /\ now < MaxClock * TimeStep
  /\ now' = now + TimeStep
  /\ hist' = Foreign
  /\ UNCHANGED <<cp, desiredIds, runtimes, created, ownership, renewTimers, authDir,
                 conn, out, socks, ens, stp, renew, hand, disc>>

\* The control plane's settings or eligible list change.
ControlPlaneChange(cps) ==
  /\ UNCHANGED libVars
  /\ \E c \in cps : c # cp /\ cp' = c
  /\ hist' = Foreign
  /\ UNCHANGED <<now, desiredIds, runtimes, created, ownership, renewTimers, authDir,
                 conn, out, socks, ens, stp, renew, hand, disc>>

\* -------------------------------------------------- canonical identity
\* A resolveCanonical that also answers a phone JID with its LID.
swappedCanonical(data, jid, fallbackPn) ==
  LET normalizedJid == Trim(StringOr(jid))
  IN IF endsWith(normalizedJid, "@s.whatsapp.net")
       THEN LET lid == Get(data.pn_to_lid, normalizedJid)
            IN IF lid = Null THEN normalizedJid ELSE lid
     ELSE IF endsWith(normalizedJid, "@lid")
       THEN LET pn == Get(data.lid_to_pn, normalizedJid)
            IN IF pn = Null THEN normalizedJid ELSE pn
     ELSE normalizedJid

\* resolveCanonical(jid, fallbackPn) after its load().
resolveCanonical(data, jid, fallbackPn) ==
  LET normalizedJid == Trim(StringOr(jid))
      normalizedFallbackPn == Trim(StringOr(fallbackPn))
  IN IF endsWith(normalizedFallbackPn, "@s.whatsapp.net") THEN normalizedFallbackPn
     ELSE IF normalizedJid = <<>> THEN normalizedJid
     ELSE IF endsWith(normalizedJid, "@s.whatsapp.net") THEN normalizedJid
     ELSE IF endsWith(normalizedJid, "@lid")
       THEN LET pn == Get(data.lid_to_pn, normalizedJid)
            IN IF pn = Null \/ pn = <<>> THEN normalizedJid ELSE pn
     ELSE normalizedJid

\* ------------------------------------------------------- outbound queue
\* A queued message: id (0: none), to, and body (whether it carries a body
\* or a media_url).
QueuedMessages(ids, tos) == [id : ids, to : tos, body : BOOLEAN]

\* The polls of at most n messages; the ids of a poll are distinct.
Batches(msgs, n) ==
  {b \in UNION {[1..k -> msgs] : k \in 0..n} :
     \A x, y \in 1..Len(b) : x # y /\ b[x].id # 0 => b[x].id # b[y].id}

\* !queued?.id || !queued?.to || (!queued?.body && !queued?.media_url)
Malformed(q) == q.id = 0 \/ StringOr(q.to) = <<>> \/ ~q.body

\* What primaryJid does: it throws, or answers a body's jid_pn and jid
\* (both Null for an empty body).
NoAnswer == [threw |-> FALSE, jid_pn |-> Null, jid |-> Null]
PrimaryJids(jids) ==
  [threw : {FALSE}, jid_pn : jids, jid : jids] \cup {[NoAnswer EXCEPT !.threw = TRUE]}

\* resolveDestination(queued) with resolved = what primaryJid answered.
resolveDestination(to, resolved) ==
  LET originalTo == Trim(StringOr(to))
      jidPn == Trim(StringOr(IF StringOr(resolved.jid_pn) # <<>> THEN resolved.jid_pn
                             ELSE resolved.jid))
      normalized == normalizeOutboundTo(to)
  IN IF endsWith(originalTo, "@lid")
       THEN IF jidPn = <<>>
              THEN [error |-> "lid_without_mapping", originalTo |-> originalTo,
                    toNormalized |-> Null]
              ELSE [error |-> "", originalTo |-> originalTo, toNormalized |-> jidPn]
     ELSE IF normalized.error # ""
       THEN [normalized EXCEPT !.error = "invalid-destination:" \o @]
     ELSE normalized

\* A retry that always sleeps the first backoff.
firstBackoffMs(attempt) == SESSION_REFRESH_BACKOFF_MS[1]

\* SESSION_REFRESH_BACKOFF_MS[Math.min(attempt, SESSION_REFRESH_BACKOFF_MS.length - 1)]
backoffMs(attempt) ==
  SESSION_REFRESH_BACKOFF_MS[
    (IF attempt < Len(SESSION_REFRESH_BACKOFF_MS) - 1
       THEN attempt ELSE Len(SESSION_REFRESH_BACKOFF_MS) - 1) + 1]

\* What the tick did for the message with this id: a primaryJid call (arg
\* the answer's jid_pn and jid), a sendMessage call (arg the jid, res its
\* outcome), a refreshSession call, a sleep (arg the ms), a /mark-sent
\* post, a /mark-failed post (arg the error).
Event(id, ev, arg, res) == [id |-> id, ev |-> ev, arg |-> arg, res |-> res]

\* The ticks' record, for the poll that came last: hist.tick names the
\* events it keeps.
Recorded(e) == e.ev \in hist.tick
Logged(evs) == IF hist.tick = {} THEN Foreign
               ELSE [Foreign EXCEPT !.log = @ \o SelectSeq(evs, Recorded)]

\* tick() up to its first await.
TickEnter(ob, c) ==
  IF ob.processing \/ ~c.connected \/ c.sock = 0
    THEN ob
    ELSE [ob EXCEPT !.processing = TRUE, !.pc = "poll"]

\* The end of tick(): its finally.
TickLeave(ob) ==
  [ob EXCEPT !.processing = FALSE, !.pc = "idle", !.attempt = 0, !.queue = <<>>,
             !.dest = <<>>, !.err = "", !.sent = "no"]

\* The head of the loop over the polled messages, up to the next await;
\* queue holds the messages the loop has not finished.
RECURSIVE LoopHead(_, _)
LoopHead(ob, c) ==
  IF ob.queue = <<>> THEN TickLeave(ob)
  ELSE IF ~c.connected \/ c.sock = 0 THEN TickLeave(ob)
  ELSE IF Malformed(Head(ob.queue))
    THEN IF Head(ob.queue).id # 0
           THEN [ob EXCEPT !.pc = "markfail", !.attempt = 0, !.dest = <<>>,
                           !.err = "malformed-message", !.sent = "no"]
           ELSE LoopHead([ob EXCEPT !.queue = Tail(@)], c)
  ELSE [ob EXCEPT !.pc = "resolve", !.attempt = 0, !.dest = <<>>, !.err = "",
                  !.sent = "no"]

\* The interval timer of OutboundQueueRunner fired and tick() went past its guard.
IntervalTick(i, g) ==
  /\ UNCHANGED libVars
  /\ out[i][g].interval
  /\ TickEnter(out[i][g], conn[i][g]) # out[i][g]
  /\ out' = [out EXCEPT ![i][g] = TickEnter(@, conn[i][g])]
  /\ hist' = Foreign
  /\ UNCHANGED <<now, cp, desiredIds, runtimes, created, ownership, renewTimers,
                 authDir, socks, ens, stp, renew, hand, disc>>
  /\ SetConn(conn)

\* /queued-messages answered with messages (<<>> also stands for a request
\* that threw).
TickPolled(i, g, messages) ==
  /\ UNCHANGED libVars
  /\ out[i][g].pc = "poll"
  /\ out' = [out EXCEPT ![i][g] = LoopHead([@ EXCEPT !.queue = messages], conn[i][g])]
  /\ hist' = IF hist.tick = {} THEN Foreign
             ELSE [Foreign EXCEPT !.polled = messages, !.log = <<>>]
  /\ UNCHANGED <<now, cp, desiredIds, runtimes, created, ownership, renewTimers,
                 authDir, socks, ens, stp, renew, hand, disc>>
  /\ SetConn(conn)

\* resolveDestination returned, resolved being primaryJid's answer, or
\* primaryJid threw: that leaves tick() through its finally.
TickResolved(i, g, resolved) ==
  /\ UNCHANGED libVars
  /\ out[i][g].pc = "resolve"
  /\ LET ob == out[i][g]
         to == Head(ob.queue).to
     IN IF resolved.threw
          THEN /\ endsWith(Trim(StringOr(to)), "@lid")
               /\ out' = [out EXCEPT ![i][g] = TickLeave(ob)]
          ELSE LET r == resolveDestination(to, resolved)
               IN out' = [out EXCEPT ![i][g] =
                    IF r.error # "" THEN [ob EXCEPT !.pc = "markfail", !.err = r.error]
                    ELSE [ob EXCEPT !.pc = "send", !.dest = r.toNormalized]]
  /\ hist' = LET q == Head(out[i][g].queue)
             IN Logged(IF endsWith(Trim(StringOr(q.to)), "@lid")
                         THEN <<Event(q.id, "primary-jid",
                                      <<resolved.jid_pn, resolved.jid>>,
                                      IF resolved.threw THEN "throws" ELSE "ok")>>
                         ELSE <<>>)
  /\ UNCHANGED <<now, cp, desiredIds, runtimes, created, ownership, renewTimers,
                 authDir, socks, ens, stp, renew, hand, disc>>
  /\ SetConn(conn)

\* What a send comes to: the media download fails before it ("early"), it
\* succeeds, or sendMessage throws "no matching sessions found", another
\* signal-session error ("bad mac", "failed to decrypt message") or any
\* other error.
SendOutcomes == {"early", "ok", "noSession", "badMac", "error"}

\* canRetry stretched to every signal-session error and one more attempt.
canRetryOnceMore(res, attempt) ==
  res \in {"noSession", "badMac"} /\ attempt <= DECRYPT_RETRY_MAX_ATTEMPTS

\* canRetry in the catch of sendWithSessionRecovery: isSignalSessionError
\* holds of "noSession" and "badMac", isNoMatchingSession of the first.
canRetry(res, attempt) ==
  res = "noSession" /\ attempt < DECRYPT_RETRY_MAX_ATTEMPTS

\* sendWithSessionRecovery resumed after resolveCanonicalJid (data: the
\* maps of the alias store) and fetchMediaBuffer.  res = "early": the
\* download failed, no send is made.  Otherwise this.runtime.sock.sendMessage
\* is called: on no socket it throws a TypeError, else res is its outcome.
TickSend(i, g, res, data) ==
  /\ UNCHANGED libVars
  /\ out[i][g].pc = "send"
  /\ LET ob == out[i][g]
         c == conn[i][g]
         sent == IF c.connected THEN "connected" ELSE "notConnected"
         targetJid == resolveCanonical(data, ob.dest, Null)
         failed == [ob EXCEPT !.pc = "markfail", !.attempt = 0, !.err = "send"]
     IN /\ out' = [out EXCEPT ![i][g] =
             IF res = "early" \/ c.sock = 0 THEN failed
             ELSE IF res = "ok" THEN [ob EXCEPT !.pc = "marksent", !.attempt = 0, !.sent = sent]
             ELSE IF canRetry(res, ob.attempt)
               THEN [ob EXCEPT !.pc = "backoff", !.sent = sent]
             ELSE [failed EXCEPT !.sent = sent]]
        /\ hist' = IF res = "early" \/ c.sock = 0 THEN Logged(<<>>)
                    ELSE Answered(Logged(<<Event(Head(ob.queue).id, "send", targetJid, res)>>),
                                  "send", i, res)
  /\ UNCHANGED <<now, cp, desiredIds, runtimes, created, ownership, renewTimers,
                 authDir, socks, ens, stp, renew, hand, disc>>
  /\ SetConn(conn)

\* refreshSessionForJid and the backoff sleep are over (ok), or the
\* refresh threw.
TickBackoff(i, g, ok) ==
  /\ UNCHANGED libVars
  /\ out[i][g].pc = "backoff"
  /\ LET ob == out[i][g]
         id == Head(ob.queue).id
     IN /\ out' = [out EXCEPT ![i][g] =
             IF ok THEN [ob EXCEPT !.pc = "send", !.attempt = @ + 1, !.sent = "no"]
             ELSE [ob EXCEPT !.pc = "markfail", !.attempt = 0, !.err = "send",
                             !.sent = "no"]]
        /\ hist' = Logged(IF ok THEN <<Event(id, "refresh", <<>>, "ok"),
                                       Event(id, "sleep", <<backoffMs(ob.attempt)>>, "ok")>>
                          ELSE <<Event(id, "refresh", <<>>, "throws")>>)
  /\ UNCHANGED <<now, cp, desiredIds, runtimes, created, ownership, renewTimers,
                 authDir, socks, ens, stp, renew, hand, disc>>
  /\ SetConn(conn)

\* /mark-sent or /mark-failed answered (ok) or threw; the loop goes on.
TickMarked(i, g, ok) ==
  /\ UNCHANGED libVars
  /\ out[i][g].pc \in {"marksent", "markfail"}
  /\ LET ob == out[i][g]
         id == Head(ob.queue).id
         res == IF ok THEN "ok" ELSE "throws"
     IN /\ out' = [out EXCEPT ![i][g] =
             IF ob.pc = "marksent" /\ ~ok
               THEN [ob EXCEPT !.pc = "markfail", !.err = "send", !.sent = "no"]
               ELSE LoopHead([ob EXCEPT !.queue = Tail(@)], conn[i][g])]
        /\ hist' = Logged(IF ob.pc = "marksent" THEN <<Event(id, "mark-sent", <<>>, res)>>
                          ELSE <<Event(id, "mark-failed", <<ob.err>>, res)>>)
  /\ UNCHANGED <<now, cp, desiredIds, runtimes, created, ownership, renewTimers,
                 authDir, socks, ens, stp, renew, hand, disc>>
  /\ SetConn(conn)

\* ------------------------------------------------------ connection events
\* this.badMacTimestamps.filter(...): the timestamps of the window.
RECURSIVE InWindow(_, _)
InWindow(ts, t) ==
  IF ts = <<>> THEN <<>>
  ELSE IF t - Head(ts) <= BAD_MAC_WINDOW_MS THEN <<Head(ts)>> \o InWindow(Tail(ts), t)
  ELSE InWindow(Tail(ts), t)

\* registerSignalSessionError for an error isSignalSessionError accepts:
\* whether the breaker trips ...
BreakerTrips(c) ==
  /\ Len(InWindow(Append(c.badMacTimestamps, now), now)) >= BAD_MAC_THRESHOLD
  /\ ~c.badMacBreakerRunning
  /\ now >= c.badMacBreakerUntil

\* A breaker that trips without starting its cooldown.
registerWithoutCooldown(c) ==
  IF BreakerTrips(c)
    THEN [c EXCEPT !.badMacTimestamps = <<>>, !.badMacBreakerRunning = TRUE]
    ELSE [c EXCEPT !.badMacTimestamps = InWindow(Append(@, now), now)]

\* ... and the runner after it, with tripBadMacCircuitBreaker up to its
\* await when it trips.
registerSignalSessionError(c) ==
  IF BreakerTrips(c)
    THEN [c EXCEPT !.badMacTimestamps = <<>>, !.badMacBreakerRunning = TRUE,
                   !.badMacBreakerUntil = now + BAD_MAC_COOLDOWN_MS]
    ELSE [c EXCEPT !.badMacTimestamps = InWindow(Append(@, now), now)]

\* An open handler that resets neither the attempts nor the window.
OpenHandlerStale(c) ==
  [c EXCEPT !.connecting = FALSE, !.connected = TRUE, !.connectedAt = now,
            !.reconnectTimeout = FALSE]

\* connection.update with connection = 'open', up to the status post.
OpenHandler(c) ==
  [c EXCEPT !.connecting = FALSE, !.connected = TRUE, !.connectedAt = now,
            !.reconnectAttempt = 0, !.badMacTimestamps = <<>>,
            !.reconnectTimeout = FALSE]

\* connection.update with connection = 'close', up to the status post.
CloseHandler(c, signalError) ==
  [(IF signalError THEN registerSignalSessionError(c) ELSE c)
     EXCEPT !.connecting = FALSE, !.connected = FALSE, !.connectedAt = 0, !.sock = 0]

\* An auth wipe that schedules a backoff reconnect as well.
WipeHandlerBackoff(c) ==
  [c EXCEPT !.intentionalStop = TRUE, !.reconnectTimeout = TRUE, !.sock = 0,
            !.connecting = FALSE, !.connected = FALSE, !.reconnectAttempt = @ + 1]

\* wipeAuthAndRestart up to fs.rm.
WipeHandler(c) ==
  [c EXCEPT !.intentionalStop = TRUE, !.reconnectTimeout = FALSE, !.sock = 0,
            !.connecting = FALSE, !.connected = FALSE]

scheduleReconnect(c) ==
  [c EXCEPT !.reconnectAttempt = @ + 1, !.reconnectTimeout = TRUE]

\* A clearReconnect that leaves the timer.
keepReconnect(c) == c

\* clearReconnect(): the pending reconnect timer, if any, is cleared.
clearReconnect(c) == [c EXCEPT !.reconnectTimeout = FALSE]

\* A scheduleReconnect that sets a timer of no delay.
ReconnectAtOnce(c, close) == {0}

\* The delays scheduleReconnect may pick: delayMs ?? RECONNECT_DELAYS_MS[index],
\* delayMs being randomBetween(2000, 5000) after a close with status 515.
ReconnectDelays(c, close) ==
  IF close = "restart" THEN {2000, 5000}
  ELSE {RECONNECT_DELAYS_MS[
          (IF c.reconnectAttempt < Len(RECONNECT_DELAYS_MS) - 1
             THEN c.reconnectAttempt ELSE Len(RECONNECT_DELAYS_MS) - 1) + 1]}

\* The timers of a run that keeps time (hist.timed): the close that set the
\* reconnect timer of runner g of session i, reconnectAttempt before the
\* call and the time the timer is due.
HistScheduled(i, g, c, close) ==
  IF ~hist.timed THEN {Foreign}
  ELSE {[Foreign EXCEPT !.due = {d \in @ : d.i # i \/ d.g # g} \cup
                                 {[i |-> i, g |-> g, close |-> close,
                                   attempt |-> c.reconnectAttempt, at |-> now + delay]}] :
          delay \in ReconnectDelays(c, close)}

\* The socket n of session i reports connection = 'open'.
SockOpen(i, n) ==
  /\ UNCHANGED libVars
  /\ socks[i][n].st = "connecting"
  /\ socks' = [socks EXCEPT ![i][n].st = "open"]
  /\ hand' = [hand EXCEPT ![i][socks[i][n].gen].open = TRUE]
  /\ hist' = Foreign
  /\ UNCHANGED <<now, cp, desiredIds, runtimes, created, ownership, renewTimers,
                 authDir, out, ens, stp, renew, disc>>
  /\ SetConn([conn EXCEPT ![i][socks[i][n].gen] = OpenHandler(@)])

\* The CONNECTED status post answered: outbound.start().
OpenStatusDone(i, g) ==
  /\ UNCHANGED libVars
  /\ hand[i][g].open
  /\ hand' = [hand EXCEPT ![i][g].open = FALSE]
  /\ out' = [out EXCEPT ![i][g] = [TickEnter(@, conn[i][g]) EXCEPT !.interval = TRUE]]
  /\ hist' = Foreign
  /\ UNCHANGED <<now, cp, desiredIds, runtimes, created, ownership, renewTimers,
                 authDir, socks, ens, stp, renew, disc>>
  /\ SetConn(conn)

\* The socket n of session i reports connection = 'close' (the peer or the
\* network closed it).  kind: "wipe" = shouldWipeAuth holds (loggedOut,
\* "bad session"), "signal" = the error is a signal-session error,
\* "restart" = status 515, "plain" = any other.
SockClose(i, n, kind) ==
  /\ UNCHANGED libVars
  /\ socks[i][n].st \in {"connecting", "open"}
  /\ LET g == socks[i][n].gen
         trips == kind = "signal" /\ BreakerTrips(conn[i][g])
     IN /\ hand[i][g].close = "none"
        /\ trips => ~hand[i][g].trip
        /\ out' = [out EXCEPT ![i][g].interval = FALSE]
        /\ hand' = [hand EXCEPT ![i][g].close = IF kind \in {"wipe", "restart"} THEN kind
                                                 ELSE "plain",
                                ![i][g].trip = @ \/ trips]
        /\ socks' = [socks EXCEPT ![i][n] = ClosedSock]
        /\ hist' = Tripped(Answered(Foreign, "close", i, kind), i, trips)
        /\ UNCHANGED <<now, cp, desiredIds, runtimes, created, ownership, renewTimers,
                       authDir, ens, stp, renew, disc>>
        /\ SetConn([conn EXCEPT ![i][g] = CloseHandler(@, kind = "signal")])

\* The DISCONNECTED status post of the close handler answered: nothing
\* more for a stopped or undesired session, else the auth wipe or a
\* scheduled reconnect.
CloseStatusDone(i, g) ==
  /\ UNCHANGED libVars
  /\ hand[i][g].close # "none"
  /\ UNCHANGED <<now, cp, desiredIds, runtimes, created, ownership, renewTimers,
                 authDir, ens, stp, renew, disc>>
  /\ LET c == conn[i][g]
     IN IF c.intentionalStop \/ i \notin desiredIds
          THEN /\ hand' = [hand EXCEPT ![i][g].close = "none"]
               /\ hist' = Foreign
               /\ UNCHANGED <<out, socks>>
               /\ SetConn([conn EXCEPT ![i][g] = clearReconnect(@)])
          ELSE IF hand[i][g].close = "wipe"
          THEN /\ hand[i][g].wipe = "idle"
               /\ out' = [out EXCEPT ![i][g].interval = FALSE]
               /\ socks' = [socks EXCEPT ![i] = EndSocket(@, c.sock)]
               /\ hand' = [hand EXCEPT ![i][g].close = "none", ![i][g].wipe = "rm"]
               /\ hist' = Foreign
               /\ SetConn([conn EXCEPT ![i][g] = WipeHandler(@)])
          ELSE /\ hand' = [hand EXCEPT ![i][g].close = "none"]
               /\ hist' \in HistScheduled(i, g, c, hand[i][g].close)
               /\ UNCHANGED <<out, socks>>
               /\ SetConn([conn EXCEPT ![i][g] = scheduleReconnect(@)])

\* The reconnect timer fired: ensureRunning.
ReconnectFire(i, g) ==
  /\ UNCHANGED libVars
  /\ conn[i][g].reconnectTimeout
  /\ ens[i]["timer"].pc = "idle"
  /\ LET cn == [conn EXCEPT ![i][g].reconnectTimeout = FALSE]
     IN /\ EnsureStart(i, "timer", runtimes[i], cn, 0)
        /\ hist' = Foreign
        /\ UNCHANGED <<now, cp, desiredIds, ownership, renewTimers, authDir, out,
                       socks, stp, renew, hand>>
        /\ SetConn(EnsureStartConn(i, "timer", runtimes[i], cn))

\* The reconnect timer fired, no earlier than it was due.
ReconnectTimed(i, g) ==
  /\ \E d \in hist.due : d.i = i /\ d.g = g /\ now >= d.at
  /\ ReconnectFire(i, g)

\* The messages.upsert handler caught a signal-session error while
\* relaying an inbound message of an open socket of the runner.
InboundError(i, g) ==
  /\ UNCHANGED libVars
  /\ \E n \in SockNs : socks[i][n] = [gen |-> g, st |-> "open"]
  /\ Len(conn[i][g].badMacTimestamps) < MaxBadMac
  /\ BreakerTrips(conn[i][g]) => ~hand[i][g].trip
  /\ hand' = [hand EXCEPT ![i][g].trip = @ \/ BreakerTrips(conn[i][g])]
  /\ hist' = Tripped(Answered(Foreign, "inbound", i, "signal"), i, BreakerTrips(conn[i][g]))
  /\ UNCHANGED <<now, cp, desiredIds, runtimes, created, ownership, renewTimers,
                 authDir, out, socks, ens, stp, renew, disc>>
  /\ SetConn([conn EXCEPT ![i][g] = registerSignalSessionError(@)])

\* The messages of a messages.upsert event, the k-th with id k: without
\* key.remoteJid ("noJid"), with neither text nor media ("empty"), with
\* text only, or with media.
UpsertBatches ==
  {b \in UNION {[1..k -> [id : 1..MaxUpsert, kind : {"noJid", "empty", "text", "media"}]]
                  : k \in 0..MaxUpsert} :
     \A k \in 1..Len(b) : b[k].id = k}

\* The head of the loop over upsert.messages, up to the next await; queue
\* holds the messages the loop has not finished.
RECURSIVE UpsertLoopHead(_)
UpsertLoopHead(up) ==
  IF up.queue = <<>> THEN NoHandlers.upsert
  ELSE IF Head(up.queue).kind = "noJid" THEN UpsertLoopHead([up EXCEPT !.queue = Tail(@)])
  ELSE [up EXCEPT !.pc = "resolve"]

\* The inbound post is made for a message with media whatever became of
\* the media.
mediaNeverMissing(mediaType, mediaUrl) == FALSE

\* if (mediaType && !mediaUrl) continue
mediaMissing(mediaType, mediaUrl) == mediaType /\ ~mediaUrl

\* An open socket of the runner emitted messages.upsert: the handler up to
\* its first await.  type "none" is an upsert without type.  One handler
\* of a runner is followed at a time.
UpsertArrived(i, n, type, messages) ==
  /\ UNCHANGED libVars
  /\ socks[i][n].st = "open"
  /\ LET g == socks[i][n].gen
         accepted == messages # <<>> /\ type \in {"none", "notify", "append"}
     IN /\ hand[i][g].upsert.pc = "idle"
        /\ hand' = [hand EXCEPT ![i][g].upsert =
                      IF accepted THEN UpsertLoopHead([pc |-> "idle", queue |-> messages])
                      ELSE @]
        /\ hist' = IF hist.tick = {} THEN Foreign
                   ELSE [Foreign EXCEPT !.polled = IF accepted THEN messages ELSE <<>>,
                                        !.log = <<>>]
  /\ UNCHANGED <<now, cp, desiredIds, runtimes, created, ownership, renewTimers,
                 authDir, out, socks, ens, stp, renew, disc>>
  /\ SetConn(conn)

\* rememberIdentityAlias, resolveCanonicalJid and resolveSenderContactId
\* returned (none of them throws) and extractInboundContent was called.
UpsertResolved(i, g) ==
  /\ UNCHANGED libVars
  /\ hand[i][g].upsert.pc = "resolve"
  /\ LET up == hand[i][g].upsert
         kind == Head(up.queue).kind
     IN hand' = [hand EXCEPT ![i][g].upsert =
                   IF kind = "empty" THEN UpsertLoopHead([up EXCEPT !.queue = Tail(@)])
                   ELSE IF kind = "media" THEN [up EXCEPT !.pc = "download"]
                   ELSE [up EXCEPT !.pc = "post"]]
  /\ hist' = Foreign
  /\ UNCHANGED <<now, cp, desiredIds, runtimes, created, ownership, renewTimers,
                 authDir, out, socks, ens, stp, renew, disc>>
  /\ SetConn(conn)

\* downloadInboundMedia or the /upload-media post ended: with a result
\* ("ok"), with an answer that has no media_url ("noUrl", of the post
\* only), or it threw.
UpsertMedia(i, g, res) ==
  /\ UNCHANGED libVars
  /\ hand[i][g].upsert.pc \in {"download", "upload"}
  /\ hand[i][g].upsert.pc = "download" => res # "noUrl"
  /\ LET up == hand[i][g].upsert
         mediaUrl == up.pc = "upload" /\ res = "ok"
     IN /\ hand' = [hand EXCEPT ![i][g].upsert =
                      IF up.pc = "download" /\ res = "ok" THEN [up EXCEPT !.pc = "upload"]
                      ELSE IF mediaMissing(TRUE, mediaUrl)
                        THEN UpsertLoopHead([up EXCEPT !.queue = Tail(@)])
                      ELSE [up EXCEPT !.pc = "post"]]
        /\ hist' = Logged(<<Event(Head(up.queue).id, up.pc, <<>>, res)>>)
  /\ UNCHANGED <<now, cp, desiredIds, runtimes, created, ownership, renewTimers,
                 authDir, out, socks, ens, stp, renew, disc>>
  /\ SetConn(conn)

\* The POST /inbound ended: answered ("ok", or "fail" for a status that is
\* not ok), or it threw, "signal" being a signal-session error, which the
\* catch registers; the loop goes on.
UpsertPosted(i, g, res) ==
  /\ UNCHANGED libVars
  /\ hand[i][g].upsert.pc = "post"
  /\ LET up == hand[i][g].upsert
         c == conn[i][g]
         trips == res = "signal" /\ BreakerTrips(c)
     IN /\ res = "signal" => Len(c.badMacTimestamps) < MaxBadMac
        /\ trips => ~hand[i][g].trip
        /\ hand' = [hand EXCEPT ![i][g].upsert = UpsertLoopHead([up EXCEPT !.queue = Tail(@)]),
                                ![i][g].trip = @ \/ trips]
        /\ hist' = LET h == Logged(<<Event(Head(up.queue).id, "inbound", <<>>, res)>>)
                   IN IF res = "signal" THEN Tripped(Answered(h, "inbound", i, res), i, trips)
                      ELSE h
        /\ UNCHANGED <<now, cp, desiredIds, runtimes, created, ownership, renewTimers,
                       authDir, out, socks, ens, stp, renew, disc>>
        /\ SetConn([conn EXCEPT ![i][g] =
                      IF res = "signal" THEN registerSignalSessionError(@) ELSE @])

\* ------------------------------------------------------- contact cache
\* contactResolveCache is a set of entries [jid, contactId, expiresAt], one
\* per jid (the key's instanceId is the runner's); contactId 0 is null.
\* getCachedContactResolve: the entry of the jid that has not expired.
getCachedContactResolve(cache, jid) ==
  {e \in cache : e.jid = jid /\ e.expiresAt > now}

\* cacheContactResolve: the entry is set; above 500 entries the expired
\* ones are deleted.
cacheContactResolve(cache, jid, contactId, expiresAt) ==
  LET set == {e \in cache : e.jid # jid}
               \cup {[jid |-> jid, contactId |-> contactId, expiresAt |-> expiresAt]}
  IN IF Cardinality(set) > 500
       THEN {e \in set : e.expiresAt > now}
       ELSE set

\* resolveSenderContactId for a contactJid, called by the messages.upsert
\* handler of an open socket of the runner, up to its await: a cached
\* entry answers it, an expired one is deleted and /contacts/resolve is
\* called.  One call of a runner is followed at a time.
ContactLookup(i, g, jid) ==
  /\ UNCHANGED libVars
  /\ \E n \in SockNs : socks[i][n] = [gen |-> g, st |-> "open"]
  /\ hand[i][g].resolve = 0
  /\ LET cache == conn[i][g].contactResolveCache
         cached == getCachedContactResolve(cache, jid)
     IN /\ hand' = [hand EXCEPT ![i][g].resolve = IF cached # {} THEN 0 ELSE jid]
        /\ hist' = Answered(Foreign, "lookup", i, IF cached # {} THEN "cached" ELSE "sent")
        /\ UNCHANGED <<now, cp, desiredIds, runtimes, created, ownership, renewTimers,
                       authDir, out, socks, ens, stp, renew, disc>>
        /\ SetConn([conn EXCEPT ![i][g].contactResolveCache =
                      {e \in cache : e.jid # jid \/ e \in cached}])

\* /contacts/resolve answered with a contact ("ok"), or it threw: a
\* duplicate conflict ("duplicate") or any other error ("error").
ContactAnswered(i, g, res) ==
  /\ UNCHANGED libVars
  /\ hand[i][g].resolve # 0
  /\ LET jid == hand[i][g].resolve
         expiresAt == now + (IF res = "ok" THEN 24 * 60 * 60 * 1000
                             ELSE IF res = "duplicate"
                               THEN CONTACT_RESOLVE_DUPLICATE_COOLDOWN_MS
                             ELSE CONTACT_RESOLVE_ERROR_COOLDOWN_MS)
         h == Answered(Foreign, "resolve", i, res)
     IN /\ hand' = [hand EXCEPT ![i][g].resolve = 0]
        /\ hist' = IF hist.calls /\ res # "ok"
                     THEN [h EXCEPT !.nulls = {r \in @ : r.i # i \/ r.jid # jid}
                                              \cup {[i |-> i, jid |-> jid, until |-> expiresAt]}]
                     ELSE h
        /\ UNCHANGED <<now, cp, desiredIds, runtimes, created, ownership, renewTimers,
                       authDir, out, socks, ens, stp, renew, disc>>
        /\ SetConn([conn EXCEPT ![i][g].contactResolveCache =
                      cacheContactResolve(@, jid, IF res = "ok" THEN 1 ELSE 0, expiresAt)])

\* The DISCONNECTED status post of tripBadMacCircuitBreaker answered:
\* wipeAuthAndRestart up to fs.rm.
TripStatusDone(i, g) ==
  /\ UNCHANGED libVars
  /\ hand[i][g].trip
  /\ hand[i][g].wipe = "idle"
  /\ out' = [out EXCEPT ![i][g].interval = FALSE]
  /\ socks' = [socks EXCEPT ![i] = EndSocket(@, conn[i][g].sock)]
  /\ hand' = [hand EXCEPT ![i][g].trip = FALSE, ![i][g].wipe = "rmTrip"]
  /\ hist' = Foreign
  /\ UNCHANGED <<now, cp, desiredIds, runtimes, created, ownership, renewTimers,
                 authDir, ens, stp, renew, disc>>
  /\ SetConn([conn EXCEPT ![i][g] = WipeHandler(@)])

\* fs.rm of the auth directory is done: resetRuntime, then ensureRunning.
WipeRemoved(i, g) ==
  /\ UNCHANGED libVars
  /\ hand[i][g].wipe # "idle"
  /\ ens[i]["wipe"].pc = "idle"
  /\ authDir' = [authDir EXCEPT ![i] = FALSE]
  /\ hand' = [hand EXCEPT ![i][g].wipe = "idle"]
  /\ EnsureStart(i, "wipe", 0, conn, IF hand[i][g].wipe = "rmTrip" THEN g ELSE 0)
  /\ hist' = Foreign
  /\ UNCHANGED <<now, cp, desiredIds, ownership, renewTimers, out, socks, stp, renew>>
  /\ SetConn(EnsureStartConn(i, "wipe", 0, conn))

\* -------------------------------------------------- destination: steps
\* normalizeOutboundTo({ to }) and normalizeOutboundTo of its toNormalized,
\* once in a run.
NormalizeTwice(to) ==
  /\ call.fn = "none"
  /\ call' = [fn |-> "normalizeOutboundTo", x |-> to,
              r1 |-> normalizeOutboundTo(to).toNormalized,
              r2 |-> normalizeOutboundTo(normalizeOutboundTo(to).toNormalized).toNormalized]
  /\ UNCHANGED <<mgrVars, alias, shut>>

\* ------------------------------------------- identity alias store: steps
\* load() up to its await of readFile.
AliasLoadStart ==
  /\ ~alias.loaded
  /\ alias' = [alias EXCEPT !.loaded = TRUE, !.loading = TRUE]
  /\ UNCHANGED <<mgrVars, call, shut>>

\* readFile answered: the file's maps replace data, or ENOENT leaves it.
AliasLoadDone ==
  /\ alias.loading
  /\ alias' = [alias EXCEPT !.loading = FALSE,
                            !.data = IF alias.file.exists THEN alias.file.data ELSE @]
  /\ UNCHANGED <<mgrVars, call, shut>>

\* The two assignments of rememberPair.
rememberData(data, lid, pn) ==
  [lid_to_pn |-> Put(data.lid_to_pn, lid, pn), pn_to_lid |-> Put(data.pn_to_lid, pn, lid)]

\* rememberPair(jidLid, jidPn) from the return of its load() to its
\* return or to its await of save().
rememberPair(jidLid, jidPn) ==
  LET lid == Trim(StringOr(jidLid))
      pn == Trim(StringOr(jidPn))
      changed == Get(alias.data.lid_to_pn, lid) # pn \/ Get(alias.data.pn_to_lid, pn) # lid
  IN /\ alias.loaded
     /\ IF lid = <<>> \/ pn = <<>> \/ ~endsWith(lid, "@lid")
           \/ ~endsWith(pn, "@s.whatsapp.net")
          THEN alias' = [alias EXCEPT !.ret = "false"]
        ELSE IF changed
          THEN /\ alias.saving < MaxSaves
               /\ alias' = [alias EXCEPT !.data = rememberData(@, lid, pn),
                                         !.saving = @ + 1, !.ret = "none"]
        ELSE alias' = [alias EXCEPT !.ret = "false"]
     /\ UNCHANGED <<mgrVars, call, shut>>

\* save() wrote JSON.stringify(this.data) and rememberPair returned changed.
AliasSaved ==
  /\ alias.saving > 0
  /\ alias' = [alias EXCEPT !.file = [exists |-> TRUE, data |-> alias.data], !.saving = @ - 1, !.ret = "changed"]
  /\ UNCHANGED <<mgrVars, call, shut>>

\* A new ConnectionRunner builds a new store over the same file.
AliasRestart ==
  /\ alias.restarts < MaxRestarts
  /\ alias.saving = 0 /\ ~alias.loading
  /\ alias' = [NewAliasStore EXCEPT !.file = alias.file, !.restarts = alias.restarts + 1]
  /\ UNCHANGED <<mgrVars, call, shut>>

\* resolveCanonical(jid) and resolveCanonical of its result, the maps as
\* they are once the store has loaded.
ResolveTwice(jid) ==
  /\ alias.loaded /\ ~alias.loading
  /\ call' = [fn |-> "resolveCanonical", x |-> jid,
              r1 |-> resolveCanonical(alias.data, jid, Null),
              r2 |-> resolveCanonical(alias.data,
                                      resolveCanonical(alias.data, jid, Null), Null)]
  /\ UNCHANGED <<mgrVars, alias, shut>>

\* ----------------------------------------------------------- step groups
EnsureSteps(i) ==
  \E by \in EnsureCallers :
    \/ \E response \in LockAnswers : EnsureAcquired(i, by, response)
    \/ \E ok \in BOOLEAN : EnsureConnected(i, by, ok)
    \/ EnsureReleased(i, by)

StopSteps(i) ==
  \E by \in StopCallers :
    \/ StopStatusDone(i, by)
    \/ StopReleased(i, by)

RenewSteps(i) ==
  \/ RenewFire(i)
  \/ RenewKept(i)
  \/ RenewRefused(i)

\* The queue's steps, with the polls, the primary-jid answers and the alias
\* maps the environment supplies.
QueueSteps(i, g, batches, answers, datas) ==
  \/ IntervalTick(i, g)
  \/ \E messages \in batches : TickPolled(i, g, messages)
  \/ \E resolved \in answers : TickResolved(i, g, resolved)
  \/ \E res \in SendOutcomes, data \in datas : TickSend(i, g, res, data)
  \/ \E ok \in BOOLEAN : TickBackoff(i, g, ok)
  \/ \E ok \in BOOLEAN : TickMarked(i, g, ok)

\* Messages with a destination that needs no lookup, well-formed or not.
PlainMessages == QueuedMessages({1}, {<<"1">>})

\* -------------------------------------------------------- specifications
\* The whole program is the interleaving of every action above.  Each
\* specification below is the program restricted to the sessions, the
\* control-plane answers and the events one group of properties is about.
OneListed == [n : {1}, list : {<<[id |-> 1, priority |-> 5]>>}]
OneOrNone == [n : {1}, list : {<<>>, <<[id |-> 1, priority |-> 5]>>}]
TwoEqual ==
  {c \in ControlPlanes({1, 2}, 1) :
     c.n = 1 /\ \A k \in 1..Len(c.list) : c.list[k].priority = 5}

\* One session the control plane always lists: its sockets open and close
\* (plainly, or with an error that asks for an auth wipe), it reconnects,
\* and its outbound queue runs.
InitQueue == InitWith({1}, OneListed, FALSE)

NextQueue ==
  \/ DiscoveryStart
  \/ DiscoveryFetched(TRUE)
  \/ DiscEnsure
  \/ DiscoveryEnd
  \/ \E i \in Sessions : EnsureSteps(i)
  \/ \E i \in Sessions, n \in SockNs : SockOpen(i, n)
  \/ \E i \in Sessions, n \in SockNs, kind \in {"plain", "wipe"} : SockClose(i, n, kind)
  \/ \E i \in Sessions, g \in Gens :
       \/ OpenStatusDone(i, g)
       \/ CloseStatusDone(i, g)
       \/ ReconnectFire(i, g)
       \/ WipeRemoved(i, g)
       \/ QueueSteps(i, g, Batches(PlainMessages, MaxBatch), {NoAnswer}, {EmptyData})

SpecQueue == InitQueue /\ [][NextQueue]_vars

\* One session the control plane always lists: its sockets open and close
\* (plainly, or with an error that asks for an auth wipe), it reconnects,
\* and the process is told to shut down.  The session keeps its lock until
\* a stopGracefully releases it, so releaseAll finds no entry to release
\* (ReleaseAllIdle) and ShutdownReleased has nothing to answer.
InitShutdown == InitWith({1}, OneListed, FALSE)

\* shutdown has not returned: once it has, the process exits.
Running == shut.pc # "done"

NextShutdown ==
  \/ Running /\ DiscoveryStart
  \/ Running /\ DiscoveryFetched(TRUE)
  \/ Running /\ DiscEnsure
  \/ Running /\ DiscoveryEnd
  \/ Running /\ ShutdownStart
  \/ Running /\ ShutdownStop
  \/ Running /\ \E i \in Sessions : EnsureSteps(i)
  \/ Running /\ \E i \in Sessions : StopSteps(i)
  \/ Running /\ \E i \in Sessions, n \in SockNs : SockOpen(i, n)
  \/ Running /\ \E i \in Sessions, n \in SockNs, kind \in {"plain", "wipe"} :
                   SockClose(i, n, kind)
  \/ Running /\ \E i \in Sessions, g \in Gens : OpenStatusDone(i, g)
  \/ Running /\ \E i \in Sessions, g \in Gens : CloseStatusDone(i, g)
  \/ Running /\ \E i \in Sessions, g \in Gens : ReconnectFire(i, g)
  \/ Running /\ \E i \in Sessions, g \in Gens : WipeRemoved(i, g)

SpecShutdown == InitShutdown /\ [][NextShutdown]_vars

\* One session the control plane always lists, in a run that keeps time:
\* its sockets open and close (plainly, or with status 515), and a
\* reconnect timer fires when its delay has elapsed.
InitBackoff == InitFrom({1}, OneListed, [NoHist EXCEPT !.timed = TRUE])

NextBackoff ==
  \/ ClockTick
  \/ DiscoveryStart
  \/ DiscoveryFetched(TRUE)
  \/ DiscEnsure
  \/ DiscoveryEnd
  \/ \E i \in Sessions : EnsureSteps(i)
  \/ \E i \in Sessions, n \in SockNs : SockOpen(i, n)
  \/ \E i \in Sessions, n \in SockNs, kind \in {"plain", "restart"} : SockClose(i, n, kind)
  \/ \E i \in Sessions, g \in Gens :
       \/ OpenStatusDone(i, g)
       \/ CloseStatusDone(i, g)
       \/ ReconnectTimed(i, g)

SpecBackoff == InitBackoff /\ [][NextBackoff]_vars

\* One session the control plane always lists and whose socket stays open:
\* its queue polls one message at a time, and every call the tick makes for
\* it is recorded.
Destinations == {<<"1", "@lid">>, <<"1">>, <<" ">>}
Jids == {Null, <<"1", "@s.whatsapp.net">>, <<"1", "@lid">>, <<"a">>}
Messages(ids) ==
  {q \in QueuedMessages(ids, Destinations) : ~q.body => q.to = <<"1">>}
AliasDatas ==
  {EmptyData,
   [lid_to_pn |-> {<<(<<"1", "@lid">>), <<"1", "1", "@s.whatsapp.net">>>>},
    pn_to_lid |-> {<<(<<"1", "1", "@s.whatsapp.net">>), <<"1", "@lid">>>>}]}
AllEvents == {"primary-jid", "send", "refresh", "sleep", "mark-sent", "mark-failed"}

InitRetry == InitFrom({1}, OneListed, [NoHist EXCEPT !.tick = AllEvents])

NextRetry ==
  \/ DiscoveryStart
  \/ DiscoveryFetched(TRUE)
  \/ DiscEnsure
  \/ DiscoveryEnd
  \/ \E i \in Sessions : EnsureSteps(i)
  \/ \E i \in Sessions, n \in SockNs : SockOpen(i, n)
  \/ \E i \in Sessions, g \in Gens :
       \/ OpenStatusDone(i, g)
       \/ QueueSteps(i, g, Batches(Messages({1}), MaxBatch),
                     PrimaryJids(Jids), AliasDatas)

SpecRetry == InitRetry /\ [][NextRetry]_vars

\* The same session polling up to MaxPolled messages at a time, some with
\* no id; the /mark-sent and /mark-failed posts are recorded.
Reports == {"mark-sent", "mark-failed"}

InitBatch == InitFrom({1}, OneListed, [NoHist EXCEPT !.tick = Reports])

NextBatch ==
  \/ DiscoveryStart
  \/ DiscoveryFetched(TRUE)
  \/ DiscEnsure
  \/ DiscoveryEnd
  \/ \E i \in Sessions : EnsureSteps(i)
  \/ \E i \in Sessions, n \in SockNs : SockOpen(i, n)
  \/ \E i \in Sessions, g \in Gens :
       \/ OpenStatusDone(i, g)
       \/ QueueSteps(i, g, Batches(Messages(0..MaxPolled), MaxPolled),
                     PrimaryJids(Jids), {EmptyData})

SpecBatch == InitBatch /\ [][NextBatch]_vars

\* One session that enters and leaves the eligible list, with lock renewals
\* the control plane may refuse; no socket event.
InitLock == InitWith({1}, OneOrNone, FALSE)

NextLock ==
  \/ DiscoveryStart
  \/ DiscoveryFailed
  \/ \E settingsOk \in BOOLEAN : DiscoveryFetched(settingsOk)
  \/ DiscEnsure
  \/ \E i \in Sessions : DiscStop(i)
  \/ DiscoveryEnd
  \/ ControlPlaneChange(OneOrNone)
  \/ \E i \in Sessions : EnsureSteps(i) \/ StopSteps(i) \/ RenewSteps(i)

SpecLock == InitLock /\ [][NextLock]_vars

\* One session that enters and leaves the eligible list while the clock
\* runs: sockets open, the cycles stop or skip it, renewals may be refused.
InitCooldown == InitWith({1}, OneOrNone, TRUE)

NextCooldown ==
  \/ DiscoveryStart
  \/ DiscoveryFailed
  \/ \E settingsOk \in BOOLEAN : DiscoveryFetched(settingsOk)
  \/ DiscEnsure
  \/ \E i \in Sessions : DiscSkip(i)
  \/ \E i \in Sessions : DiscStop(i)
  \/ DiscoveryEnd
  \/ ClockTick
  \/ ControlPlaneChange(OneOrNone)
  \/ \E i \in Sessions : EnsureSteps(i) \/ StopSteps(i) \/ RenewSteps(i)
  \/ \E i \in Sessions, n \in SockNs : SockOpen(i, n)

SpecCooldown == InitCooldown /\ [][NextCooldown]_vars

\* Two sessions of equal priority, a limit of one, and an eligible list
\* that changes between the cycles.
InitLimit == InitWith({1, 2}, TwoEqual, TRUE)

NextLimit ==
  \/ DiscoveryStart
  \/ DiscoveryFailed
  \/ \E settingsOk \in BOOLEAN : DiscoveryFetched(settingsOk)
  \/ DiscEnsure
  \/ \E i \in Sessions : DiscSkip(i)
  \/ \E i \in Sessions : DiscStop(i)
  \/ DiscoveryEnd
  \/ ControlPlaneChange(TwoEqual)
  \/ \E i \in Sessions : EnsureSteps(i) \/ StopSteps(i)
  \/ \E i \in Sessions, n \in SockNs : SockOpen(i, n)

SpecLimit == InitLimit /\ [][NextLimit]_vars

\* Every eligible list over the ids, with every limit above 0: the cycles
\* and their ensureRunning calls.
Limited == {c \in ControlPlanes(Ids, NumIds) : c.n > 0}

InitTargets == InitWith(Ids, Limited, TRUE)

NextTargets ==
  \/ DiscoveryStart
  \/ DiscoveryFetched(TRUE)
  \/ DiscEnsure
  \/ DiscoveryEnd
  \/ \E i \in Sessions : EnsureSteps(i)

SpecTargets == InitTargets /\ [][NextTargets]_vars

\* One listed session: every kind of close, reconnects, the breaker's
\* trip, the auth wipe, and lock loss with its stopGracefully.
InitWipe == InitWith({1}, OneListed, FALSE)

NextWipe ==
  \/ DiscoveryStart
  \/ DiscoveryFetched(TRUE)
  \/ DiscEnsure
  \/ DiscoveryEnd
  \/ \E i \in Sessions : EnsureSteps(i) \/ StopSteps(i) \/ RenewFire(i) \/ RenewRefused(i)
  \/ \E i \in Sessions, n \in SockNs : SockOpen(i, n)
  \/ \E i \in Sessions, n \in SockNs, kind \in {"plain", "wipe", "signal"} :
       SockClose(i, n, kind)
  \/ \E i \in Sessions, g \in Gens :
       \/ CloseStatusDone(i, g)
       \/ ReconnectFire(i, g)
       \/ TripStatusDone(i, g)
       \/ WipeRemoved(i, g)

SpecWipe == InitWipe /\ [][NextWipe]_vars

\* One listed session: opens, closes with and without a signal-session
\* error, reconnects and the breaker.
InitOpen == InitWith({1}, OneListed, FALSE)

NextOpen ==
  \/ DiscoveryStart
  \/ DiscoveryFailed
  \/ \E settingsOk \in BOOLEAN : DiscoveryFetched(settingsOk)
  \/ DiscEnsure
  \/ DiscoveryEnd
  \/ \E i \in Sessions : EnsureSteps(i)
  \/ \E i \in Sessions, n \in SockNs : SockOpen(i, n)
  \/ \E i \in Sessions, n \in SockNs, kind \in {"plain", "signal"} : SockClose(i, n, kind)
  \/ \E i \in Sessions, g \in Gens :
       \/ OpenStatusDone(i, g)
       \/ CloseStatusDone(i, g)
       \/ ReconnectFire(i, g)
       \/ TripStatusDone(i, g)
       \/ WipeRemoved(i, g)

SpecOpen == InitOpen /\ [][NextOpen]_vars

\* One identity alias store: pairs are remembered and saved, the store is
\* rebuilt over the file it wrote, JIDs are resolved.
InitAlias == InitWith({1}, OneListed, FALSE)

NextAlias ==
  \/ AliasLoadStart
  \/ AliasLoadDone
  \/ \E jidLid \in JidInputs, jidPn \in JidInputs : rememberPair(jidLid, jidPn)
  \/ AliasSaved
  \/ AliasRestart
  \/ \E jid \in JidInputs : ResolveTwice(jid)

SpecAlias == InitAlias /\ [][NextAlias]_vars

\* Destinations: every string of up to MaxLen symbols, and a message
\* without to.
InitNormalize == InitWith({1}, OneListed, FALSE)

NextNormalize == \E to \in Strings \cup {Null} : NormalizeTwice(to)

SpecNormalize == InitNormalize /\ [][NextNormalize]_vars

\* One session the control plane always lists, its socket opening and
\* closing, with lock renewals the control plane may refuse.
InitLost ==
  InitFrom({1}, OneListed, [NoHist EXCEPT !.watch = TRUE])

NextLost ==
  \/ DiscoveryStart
  \/ DiscoveryFetched(TRUE)
  \/ DiscEnsure
  \/ DiscoveryEnd
  \/ \E i \in Sessions : EnsureSteps(i) \/ StopSteps(i) \/ RenewSteps(i)
  \/ \E i \in Sessions, n \in SockNs : SockOpen(i, n) \/ SockClose(i, n, "plain")
  \/ \E i \in Sessions, g \in Gens :
       \/ OpenStatusDone(i, g)
       \/ CloseStatusDone(i, g)
       \/ ReconnectFire(i, g)

SpecLost == InitLost /\ [][NextLost]_vars

\* One session the control plane always lists, with signal-session errors
\* of inbound messages and of closes, all at one clock reading.
InitTrip == InitWith({1}, OneListed, FALSE)

NextTrip ==
  \/ DiscoveryStart
  \/ DiscoveryFetched(TRUE)
  \/ DiscEnsure
  \/ DiscoveryEnd
  \/ \E i \in Sessions : EnsureSteps(i)
  \/ \E i \in Sessions, n \in SockNs : SockOpen(i, n) \/ SockClose(i, n, "signal")
  \/ \E i \in Sessions, g \in Gens :
       \/ CloseStatusDone(i, g)
       \/ ReconnectFire(i, g)
       \/ InboundError(i, g)
       \/ TripStatusDone(i, g)
       \/ WipeRemoved(i, g)

SpecTrip == InitTrip /\ [][NextTrip]_vars

\* One session the control plane always lists, its socket opening, with
\* lock renewals that are granted, refused or fail; the answers of the
\* lock requests are recorded.
InitRenew == InitFrom({1}, OneListed, [NoHist EXCEPT !.calls = TRUE])

NextRenew ==
  \/ DiscoveryStart
  \/ DiscoveryFetched(TRUE)
  \/ DiscEnsure
  \/ DiscoveryEnd
  \/ \E i \in Sessions : EnsureSteps(i) \/ StopSteps(i)
  \/ \E i \in Sessions : RenewFire(i)
  \/ \E i \in Sessions : RenewKept(i)
  \/ \E i \in Sessions : RenewThrew(i)
  \/ \E i \in Sessions : RenewRefused(i)
  \/ \E i \in Sessions, n \in SockNs : SockOpen(i, n)

SpecRenew == InitRenew /\ [][NextRenew]_vars

\* One session that enters and leaves the eligible list: its lock is
\* acquired (by the cycle and by a reconnect timer), renewed, lost and
\* released, by a stop or by the releaseAll of shutdown.
InitOwnership == InitWith({1}, OneOrNone, FALSE)

NextOwnership ==
  \/ Running /\ DiscoveryStart
  \/ Running /\ DiscoveryFetched(TRUE)
  \/ Running /\ DiscEnsure
  \/ Running /\ \E i \in Sessions : DiscStop(i)
  \/ Running /\ DiscoveryEnd
  \/ Running /\ ControlPlaneChange(OneOrNone)
  \/ Running /\ ShutdownStart
  \/ Running /\ ShutdownStop
  \/ Running /\ ShutdownReleased
  \/ Running /\ \E i \in Sessions : EnsureSteps(i)
  \/ Running /\ \E i \in Sessions : StopSteps(i)
  \/ Running /\ \E i \in Sessions : RenewFire(i)
  \/ Running /\ \E i \in Sessions : RenewRefused(i)
  \/ Running /\ \E i \in Sessions, n \in SockNs : SockClose(i, n, "plain")
  \/ Running /\ \E i \in Sessions, g \in Gens : CloseStatusDone(i, g)
  \/ Running /\ \E i \in Sessions, g \in Gens : ReconnectFire(i, g)

SpecOwnership == InitOwnership /\ [][NextOwnership]_vars

\* One session that enters and leaves the eligible list: its sockets open
\* and close (plainly, or with an error that asks for an auth wipe), it
\* reconnects, and the cycles stop it when it is no longer desired.
InitDesired == InitWith({1}, OneOrNone, FALSE)

NextDesired ==
  \/ DiscoveryStart
  \/ DiscoveryFetched(TRUE)
  \/ DiscEnsure
  \/ \E i \in Sessions : DiscStop(i)
  \/ DiscoveryEnd
  \/ ControlPlaneChange(OneOrNone)
  \/ \E i \in Sessions : EnsureSteps(i)
  \/ \E i \in Sessions : StopSteps(i)
  \/ \E i \in Sessions, n \in SockNs : SockOpen(i, n)
  \/ \E i \in Sessions, n \in SockNs, kind \in {"plain", "wipe"} : SockClose(i, n, kind)
  \/ \E i \in Sessions, g \in Gens : CloseStatusDone(i, g)
  \/ \E i \in Sessions, g \in Gens : ReconnectFire(i, g)
  \/ \E i \in Sessions, g \in Gens : WipeRemoved(i, g)

SpecDesired == InitDesired /\ [][NextDesired]_vars

\* One session the control plane always lists, while the clock runs: its
\* socket opens, its queue sends, and signal-session errors come with a
\* close, with the relay of an inbound message and with a send.
InitSignal == InitFrom({1}, OneListed, [NoHist EXCEPT !.calls = TRUE])

NextSignal ==
  \/ ClockTick
  \/ DiscoveryStart
  \/ DiscoveryFetched(TRUE)
  \/ DiscEnsure
  \/ DiscoveryEnd
  \/ \E i \in Sessions : EnsureSteps(i)
  \/ \E i \in Sessions, n \in SockNs : SockOpen(i, n)
  \/ \E i \in Sessions, n \in SockNs : SockClose(i, n, "signal")
  \/ \E i \in Sessions, g \in Gens : OpenStatusDone(i, g)
  \/ \E i \in Sessions, g \in Gens : InboundError(i, g)
  \/ \E i \in Sessions, g \in Gens :
       QueueSteps(i, g, Batches(PlainMessages, MaxBatch), {NoAnswer}, {EmptyData})

SpecSignal == InitSignal /\ [][NextSignal]_vars

\* One session the control plane always lists, its socket opening and
\* closing, with the messages.upsert events of the socket; the media
\* requests and the /inbound posts are recorded.
InitUpsert ==
  InitFrom({1}, OneListed, [NoHist EXCEPT !.tick = {"download", "upload", "inbound"}])

NextUpsert ==
  \/ DiscoveryStart
  \/ DiscoveryFetched(TRUE)
  \/ DiscEnsure
  \/ DiscoveryEnd
  \/ \E i \in Sessions : EnsureSteps(i)
  \/ \E i \in Sessions, n \in SockNs : SockOpen(i, n)
  \/ \E i \in Sessions, n \in SockNs : SockClose(i, n, "plain")
  \/ \E i \in Sessions, g \in Gens : OpenStatusDone(i, g)
  \/ \E i \in Sessions, n \in SockNs, messages \in UpsertBatches,
          type \in {"none", "notify", "append", "other"} :
       UpsertArrived(i, n, type, messages)
  \/ \E i \in Sessions, g \in Gens : UpsertResolved(i, g)
  \/ \E i \in Sessions, g \in Gens, res \in {"ok", "noUrl", "throws"} :
       UpsertMedia(i, g, res)
  \/ \E i \in Sessions, g \in Gens, res \in {"ok", "fail", "throws", "signal"} :
       UpsertPosted(i, g, res)

SpecUpsert == InitUpsert /\ [][NextUpsert]_vars

\* Two sessions under every limit and eligible list, with requests of the
\* cycle that fail and invocations of the cycle while one is in flight.
TwoUnderLimit ==
  {c \in ControlPlanes({1, 2}, 1) :
     \A k \in 1..Len(c.list) : c.list[k].priority = 5 /\ c.list[k].id = k}

InitDiscovery ==
  InitFrom({1, 2}, TwoUnderLimit, [NoHist EXCEPT !.calls = TRUE])

NextDiscovery ==
  \/ DiscoveryStart
  \/ DiscoveryBusy
  \/ DiscoveryFailed
  \/ \E settingsOk \in BOOLEAN : DiscoveryFetched(settingsOk)
  \/ DiscEnsure
  \/ \E i \in Sessions : DiscStop(i)
  \/ DiscoveryEnd
  \/ ControlPlaneChange(TwoUnderLimit)
  \/ \E i \in Sessions : EnsureSteps(i)
  \/ \E i \in Sessions : StopSteps(i)

SpecDiscovery == InitDiscovery /\ [][NextDiscovery]_vars

\* The same session with the trips of the breaker recorded.
InitBreaker == InitFrom({1}, OneListed, [NoHist EXCEPT !.calls = TRUE])

NextBreaker ==
  \/ DiscoveryStart
  \/ DiscoveryFetched(TRUE)
  \/ DiscEnsure
  \/ DiscoveryEnd
  \/ \E i \in Sessions : EnsureSteps(i)
  \/ \E i \in Sessions, n \in SockNs : SockOpen(i, n)
  \/ \E i \in Sessions, g \in Gens : InboundError(i, g)
  \/ \E i \in Sessions, g \in Gens : TripStatusDone(i, g)
  \/ \E i \in Sessions, g \in Gens : WipeRemoved(i, g)

SpecBreaker == InitBreaker /\ [][NextBreaker]_vars

\* One session the control plane lists or not, stopped and started again
\* by the cycles while renewals of its lock are in flight.
InitStale == InitFrom({1}, OneOrNone, [NoHist EXCEPT !.calls = TRUE])

NextStale ==
  \/ DiscoveryStart
  \/ DiscoveryFetched(TRUE)
  \/ DiscEnsure
  \/ \E i \in Sessions : DiscStop(i)
  \/ DiscoveryEnd
  \/ ControlPlaneChange(OneOrNone)
  \/ \E i \in Sessions : EnsureSteps(i)
  \/ \E i \in Sessions : StopSteps(i)
  \/ \E i \in Sessions : RenewFire(i)
  \/ \E i \in Sessions : RenewRefused(i)

SpecStale == InitStale /\ [][NextStale]_vars

\* One session the control plane always lists, its socket opening and
\* closing with an error that asks for an auth wipe, the clock running,
\* and the contacts of its inbound messages resolved by requests that fail.
InitContacts == InitFrom({1}, OneListed, [NoHist EXCEPT !.calls = TRUE])

NextContacts ==
  \/ ClockTick
  \/ DiscoveryStart
  \/ DiscoveryFetched(TRUE)
  \/ DiscEnsure
  \/ DiscoveryEnd
  \/ \E i \in Sessions : EnsureSteps(i)
  \/ \E i \in Sessions, n \in SockNs : SockOpen(i, n)
  \/ \E i \in Sessions, n \in SockNs : SockClose(i, n, "wipe")
  \/ \E i \in Sessions, g \in Gens : CloseStatusDone(i, g)
  \/ \E i \in Sessions, g \in Gens : WipeRemoved(i, g)
  \/ \E i \in Sessions, g \in Gens, jid \in 1..MaxJids : ContactLookup(i, g, jid)
  \/ \E i \in Sessions, g \in Gens, res \in {"duplicate", "error"} :
       ContactAnswered(i, g, res)

SpecContacts == InitContacts /\ [][NextContacts]_vars

\* One session the control plane always lists, its socket open, and the
\* contacts of its inbound messages resolved one after the other, each a
\* JID not seen before and each found, while the clock stands still.
InitCache == InitFrom({1}, OneListed, NoHist)

NextCache ==
  \/ DiscoveryStart
  \/ DiscoveryFetched(TRUE)
  \/ DiscEnsure
  \/ DiscoveryEnd
  \/ \E i \in Sessions : EnsureSteps(i)
  \/ \E i \in Sessions, n \in SockNs : SockOpen(i, n)
  \/ \E i \in Sessions, g \in Gens, jid \in 1..MaxContacts :
       /\ jid = Cardinality(conn[i][g].contactResolveCache) + 1
       /\ ContactLookup(i, g, jid)
  \/ \E i \in Sessions, g \in Gens : ContactAnswered(i, g, "ok")

SpecCache == InitCache /\ [][NextCache]_vars

\* ------------------------------------------------------------ properties
\* C1: no OutboundQueueRunner invokes sock.sendMessage while its
\* connection is not Open (connected = true), on a first attempt or on a
\* retry of sendWithSessionRecovery.
SendOnlyWhenConnected ==
  \A i \in Sessions, g \in Gens : out[i][g].sent # "notConnected"

\* C2: for every session id at most one outbound tick is in flight: the
\* queue-drain bodies of two runners of the same id never overlap.
OneTickPerSession ==
  \A i \in Sessions : Cardinality({g \in Gens : out[i][g].processing}) <= 1

\* C3: every session id has at most one live (made and not ended or
\* closed) socket in the process.
OneLiveSocket ==
  \A i \in Sessions : Cardinality(LiveSocks(i)) <= 1

\* C4: every session id with an entry in the manager's runtimes map has
\* an ownership entry in the lock coordinator, with exactly one active
\* renewal timer.
HeldMeansOwned ==
  \A i \in Sessions : runtimes[i] # 0 => i \in ownership /\ renewTimers[i] = 1

\* InstanceManager.stopGracefully is invoked for a runtime of session i
\* by one of the callers in bys.
StopInvoked(i, bys) ==
  \E by \in bys : stp[i][by].pc = "idle" /\ stp'[i][by].pc = "status"

OpenUndesired(i) ==
  /\ runtimes[i] # 0
  /\ conn[i][runtimes[i]].connected
  /\ i \notin desiredIds

CooldownElapsed(i) ==
  now - conn[i][runtimes[i]].connectedAt >= STOP_COOLDOWN_MS

\* C5 as stated: stopGracefully is not invoked, by any caller, for a
\* session that is Open and outside the desired set while
\* now - connectedAt < STOP_COOLDOWN_MS.
StopWaitsForCooldown ==
  [][\A i \in Sessions :
       StopInvoked(i, StopCallers) /\ OpenUndesired(i) => CooldownElapsed(i)]_vars

\* C5: the discovery cycle does not invoke stopGracefully for a session
\* that is Open and outside the desired set while
\* now - connectedAt < STOP_COOLDOWN_MS.
CycleStopWaitsForCooldown ==
  [][\A i \in Sessions :
       StopInvoked(i, {"disc"}) /\ OpenUndesired(i) => CooldownElapsed(i)]_vars

\* A cycle stopped a session that was Open, its stop still in flight.
CycleStoppedOpen ==
  \E i \in Sessions : i \in hist.open /\ stp[i]["disc"].pc = "status"

LiveSessions == {i \in Sessions : LiveSocks(i) # {}}

Before(list, k) ==
  Cardinality({j \in 1..Len(list) :
                 \/ list[j].priority > list[k].priority
                 \/ list[j].priority = list[k].priority /\ j < k})

RankOf(list, id) ==
  Before(list, CHOOSE k \in 1..Len(list) : list[k].id = id)

\* C8: for a limit N > 0 the targets of a cycle are the first N entries of
\* the eligible list in the order "priority descending, ties by original
\* index", and the cycle calls acquire only for targets.
TargetsAreTopN ==
  disc.pc \notin {"idle", "fetch"} /\ disc.n > 0 =>
    /\ Len(disc.targets) = Min(disc.n, Len(disc.list))
    /\ \A k \in 1..Len(disc.targets) : RankOf(disc.list, disc.targets[k]) = k - 1
    /\ desiredIds = {disc.targets[k] : k \in 1..Len(disc.targets)}
    /\ hist.acq \subseteq desiredIds

\* N = 2 and [1:5, 2:10, 3:10]: the targets are 2 and 3, acquire was
\* called for both and not for 1.
TopTwoOfThree ==
  /\ disc.pc = "stops"
  /\ disc.n = 2
  /\ disc.list = <<[id |-> 1, priority |-> 5], [id |-> 2, priority |-> 10],
                   [id |-> 3, priority |-> 10]>>
  /\ disc.targets = <<2, 3>>
  /\ hist.acq = {2, 3}

\* The running cycle follows the previous one with the same answers and
\* nothing but the steps of the two cycles in between.
BackToBack == hist.repeat /\ hist.quiet

OpenResets ==
  [][\A i \in Sessions, n \in SockNs :
       socks[i][n].st = "connecting" /\ socks'[i][n].st = "open"
         => LET c == conn'[i][socks[i][n].gen]
            IN /\ c.reconnectAttempt = 0
               /\ c.badMacTimestamps = <<>>
               /\ c.connected
               /\ c.connectedAt = now]_vars

\* The second socket of a runner has just opened after a reconnect.
OpenedAfterReconnect ==
  \E i \in Sessions, g \in Gens :
    /\ socks[i][2] = [gen |-> g, st |-> "open"]
    /\ socks[i][1].st = "closed"
    /\ hand[i][g].open
    /\ conn[i][g].sock = 2
    /\ conn[i][g].reconnectAttempt = 0
    /\ conn[i][g].badMacTimestamps = <<>>
    /\ conn[i][g].connected

\* The two maps are mutual inverses: lid_to_pn[l] = p exactly when
\* pn_to_lid[p] = l.
Inverses(data) ==
  data.pn_to_lid = {<<e[2], e[1]>> : e \in data.lid_to_pn}

\* C11: when a rememberPair call has returned changed = true, lid_to_pn
\* and pn_to_lid are mutual inverses.
InversesAfterChanged ==
  alias.ret = "changed" /\ alias.saving = 0 => Inverses(alias.data)

\* C13: for every JID j and the maps of a loaded store,
\* resolveCanonical(resolveCanonical(j)) = resolveCanonical(j).
CanonicalIdempotent ==
  call.fn = "resolveCanonical" => call.r2 = call.r1

\* A store rebuilt over the saved file resolved a LID to its phone JID.
CanonicalFromFile ==
  /\ call.fn = "resolveCanonical"
  /\ alias.restarts > 0
  /\ alias.file.exists /\ alias.data = alias.file.data
  /\ endsWith(call.x, "@lid")
  /\ endsWith(call.r1, "@s.whatsapp.net")
  /\ call.r2 = call.r1

\* C12: for every destination x, normalizeOutboundTo of the normalized
\* destination of x gives the same normalized destination.
NormalizeIdempotent ==
  call.fn = "normalizeOutboundTo" => call.r2 = call.r1

\* Digits-dash-digits got the group suffix, and kept it the second time.
GroupNormalized ==
  /\ call.fn = "normalizeOutboundTo"
  /\ call.x = <<" ", "1", "-", "1">>
  /\ call.r1 = <<"1", "-", "1", "@g.us">>
  /\ call.r2 = call.r1

\* handleLockLost invoked stopGracefully for session i while it was Open.
LockLostOpen(i) ==
  /\ stp[i]["lock"].pc = "idle" /\ stp'[i]["lock"].pc # "idle"
  /\ runtimes[i] # 0
  /\ conn[i][runtimes[i]].connected

\* What the stop of a lost lock does at once, and when its DISCONNECTED
\* post is answered.
LockLostEffects(i) ==
  /\ LockLostOpen(i) =>
       /\ i \notin ownership'
       /\ renewTimers'[i] = 0
       /\ socks'[i][conn[i][runtimes[i]].sock].st = "closed"
       /\ ~conn'[i][runtimes[i]].connected
       /\ stp'[i]["lock"].pc = "status"
       /\ stp'[i]["lock"].gen = runtimes[i]
  /\ stp[i]["lock"].pc = "status" /\ stp'[i]["lock"].pc # "status" => runtimes'[i] = 0

\* A discovery cycle reaches session i for the first time since the lock
\* of the Open session was lost.
ReachedAfterLoss(i) == i \in hist.lost /\ i \notin hist'.lost

TripStep(i, g) == ~hand[i][g].trip /\ hand'[i][g].trip

\* What a trip does: it happens at the BAD_MAC_THRESHOLD-th error of the
\* window, outside the cooldown, and starts the cooldown; when its
\* DISCONNECTED post is answered the socket is ended and the auth wipe
\* starts; when the wipe's fs.rm is done the auth directory is gone and
\* ensureRunning has been invoked.
TripEffects(i, g) ==
  /\ TripStep(i, g) =>
       /\ Len(InWindow(Append(conn[i][g].badMacTimestamps, now), now)) >= BAD_MAC_THRESHOLD
       /\ now >= conn[i][g].badMacBreakerUntil
       /\ conn'[i][g].badMacBreakerUntil = now + BAD_MAC_COOLDOWN_MS
       /\ conn'[i][g].badMacTimestamps = <<>>
  /\ hand[i][g].trip /\ ~hand'[i][g].trip =>
       /\ hand'[i][g].wipe = "rmTrip"
       /\ \A n \in SockNs : socks'[i][n].gen # g \/ socks'[i][n].st = "closed"
       /\ authDir'[i] = authDir[i]
  /\ hand[i][g].wipe = "rmTrip" /\ hand'[i][g].wipe = "idle" =>
       /\ ~authDir'[i]
       /\ ens[i]["wipe"].pc = "idle"
       /\ ens'[i]["wipe"].pc \in {"acq", "conn"}
       /\ ens'[i]["wipe"].from = g

EventsOf(id) ==
  LET Mine(e) == e.id = id /\ e.ev # "primary-jid"
  IN SelectSeq(hist.log, Mine)

LookupOf(id) ==
  LET Mine(e) == e.id = id /\ e.ev = "primary-jid"
  IN SelectSeq(hist.log, Mine)

\* The position of the first sendMessage call that succeeded, 0 if none.
FirstSent(L) ==
  IF \E s \in 1..Len(L) : L[s].ev = "send" /\ L[s].res = "ok"
    THEN CHOOSE s \in 1..Len(L) :
           /\ L[s].ev = "send" /\ L[s].res = "ok"
           /\ \A t \in 1..(s - 1) : ~(L[t].ev = "send" /\ L[t].res = "ok")
    ELSE 0

\* The loop is past the message with this id.
Finished(id) ==
  \A i \in Sessions, g \in Gens :
    out[i][g].queue = <<>> \/ Head(out[i][g].queue).id # id

\* Before the send that succeeded: k failed sends, each followed by one
\* refreshSession call and the sleep of the schedule.
RetriedInOrder(L, s) ==
  LET k == (s - 1) \div 3
  IN /\ s = 3 * k + 1
     /\ k <= DECRYPT_RETRY_MAX_ATTEMPTS
     /\ \A j \in 1..k :
          /\ L[3 * j - 2].ev = "send" /\ L[3 * j - 2].res = "noSession"
          /\ L[3 * j - 1].ev = "refresh"
          /\ L[3 * j].ev = "sleep" /\ L[3 * j].arg = <<(<<1000, 2000, 5000>>)[j]>>

LidMessages(id) ==
  {k \in 1..Len(hist.polled) :
     /\ hist.polled[k].id = id
     /\ ~Malformed(hist.polled[k])
     /\ endsWith(Trim(StringOr(hist.polled[k].to)), "@lid")}

\* C17 as stated: for a message to an @lid destination whose primary-jid
\* lookup answered, a jid_pn ending in @s.whatsapp.net is where the message
\* is sent; with any other answer no send is attempted and the one report
\* is a mark-failed with lid_without_mapping.
LidNeedsPhoneJid ==
  \A id \in {1} :
    LET L == EventsOf(id)
        A == LookupOf(id)
    IN LidMessages(id) # {} /\ A # <<>> /\ A[1].res = "ok" =>
         LET jid_pn == A[1].arg[1]
         IN IF endsWith(StringOr(jid_pn), "@s.whatsapp.net")
              THEN \A s \in 1..Len(L) : L[s].ev = "send" => L[s].arg = jid_pn
              ELSE /\ \A s \in 1..Len(L) :
                        /\ L[s].ev = "mark-failed"
                        /\ L[s].arg = <<"lid_without_mapping">>
                   /\ Len(L) <= 1
                   /\ Finished(id) => Len(L) = 1

\* ------------------------------------------ properties of a polled batch
\* The posts that reported the outcome of the message with this id.
ReportsOf(id) ==
  LET Mine(e) == e.id = id /\ e.ev \in Reports
  IN SelectSeq(hist.log, Mine)

\* No tick is running.
TicksOver == \A i \in Sessions, g \in Gens : out[i][g].pc = "idle"

\* C19 as stated: with the session Open throughout, a tick that is over has
\* made exactly one mark-sent or mark-failed post for every message with an
\* id of the batch it polled, whatever failed on the way, and has left the
\* runner free for the next tick.
EveryMessageReportedOnce ==
  /\ \A k \in 1..Len(hist.polled) :
       hist.polled[k].id # 0 =>
         /\ Len(ReportsOf(hist.polled[k].id)) <= 1
         /\ TicksOver => Len(ReportsOf(hist.polled[k].id)) = 1
  /\ TicksOver => \A i \in Sessions, g \in Gens : ~out[i][g].processing

\* ------------------------------------------- properties of the reconnects
\* The pending reconnect timers that a close other than a 515 set.
PendingReconnects ==
  {d \in hist.due : d.close = "plain" /\ conn[d.i][d.g].reconnectTimeout}

\* C20 as stated: after a close that is neither an auth wipe nor a 515, of
\* a desired session not stopped on purpose, the timer is due after
\* RECONNECT_DELAYS_MS[min(reconnectAttempt, 5)], the call added one to
\* reconnectAttempt, and no connect attempt for the session starts before
\* the timer is due.
ReconnectWaitsForDelay ==
  [][/\ \A d \in hist'.due \ hist.due :
          d.close = "plain" =>
            /\ d.at = now + RECONNECT_DELAYS_MS[(IF d.attempt < 5 THEN d.attempt ELSE 5) + 1]
            /\ conn[d.i][d.g].reconnectAttempt = d.attempt
            /\ conn'[d.i][d.g].reconnectAttempt = d.attempt + 1
     /\ \A d \in PendingReconnects :
          (\E g \in Gens : ~conn[d.i][g].connecting /\ conn'[d.i][g].connecting)
            => now >= d.at]_vars

\* ------------------------------------------------ properties of shutdown
\* Nothing is left: no runtime in the map, no live socket, no ownership
\* entry, no renewal, reconnect or outbound-poll timer.
NothingLeft ==
  /\ \A i \in Sessions : runtimes[i] = 0 /\ LiveSocks(i) = {} /\ renewTimers[i] = 0
  /\ ownership = {}
  /\ \A i \in Sessions, g \in Gens : ~conn[i][g].reconnectTimeout /\ ~out[i][g].interval

\* releaseAll made no request.
ReleaseAllIdle == shut.pc # "waitrel"

\* C18 as stated: when shutdown returns, the discovery ticker is stopped
\* and nothing is left, whatever was in flight.
ShutdownLeavesNothing ==
  [][shut.pc # "done" /\ shut'.pc = "done" => NothingLeft']_vars

\* ------------------------------------------ properties of the lock requests
\* The request op of session i was answered with res in this step.
AnswerStep(op, i, res) ==
  hist'.last = [op |-> op, id |-> i, res |-> res, flip |-> ~hist.last.flip]

\* C21 as stated: when a renewal request of session i fails (an HTTP error
\* or a timeout), the ownership entry and the renewal timer of i are
\* removed and onLockLost(i) stops the session: stopGracefully is invoked
\* for its runtime.
RenewFailureLosesLock ==
  [][\A i \in Sessions :
       AnswerStep("renew", i, "threw") =>
         /\ i \notin ownership'
         /\ renewTimers'[i] = 0
         /\ runtimes[i] # 0 => stp'[i]["lock"].pc = "status"]_vars

\* The ensureRunning call whose acquire was answered in this step has
\* ended.
AcquireEnded(i) ==
  \E by \in EnsureCallers : ens[i][by].pc = "acq" /\ ens'[i][by] = IdleCall

\* C22: when the acquire of session i answers acquired=false or a 404,
\* ensureRunning ends there and the call creates nothing: the ownership
\* entries, the renewal timers, the runtimes and the sockets are as before.
RefusedAcquireCreatesNothing ==
  [][\A i \in Sessions :
       AnswerStep("acquire", i, "refused") \/ AnswerStep("acquire", i, "notFound") =>
         /\ AcquireEnded(i)
         /\ ownership' = ownership
         /\ renewTimers' = renewTimers
         /\ runtimes' = runtimes
         /\ created' = created
         /\ socks' = socks]_vars

\* The acquire of the cycle's ensureRunning was answered with a 404: the
\* call has ended and the session has no lock, no runtime and no socket.
SkippedNotFound ==
  \E i \in Sessions :
    /\ hist.last.op = "acquire" /\ hist.last.id = i /\ hist.last.res = "notFound"
    /\ \A by \in EnsureCallers : ens[i][by] = IdleCall
    /\ i \in desiredIds
    /\ i \notin ownership
    /\ renewTimers[i] = 0
    /\ runtimes[i] = 0
    /\ LiveSocks(i) = {}

\* C23: a session has at most one active renewal timer, and it has one
\* exactly when it has an ownership entry.
TimerIffOwned ==
  \A i \in Sessions :
    /\ renewTimers[i] <= 1
    /\ renewTimers[i] > 0 <=> i \in ownership

\* The releaseAll of shutdown is releasing the entry of a session whose
\* stop is still waiting for its own release: the entry has its one timer.
ReleaseAllReleasing ==
  /\ shut.pc = "waitrel"
  /\ shut.cur \in ownership
  /\ renewTimers[shut.cur] = 1
  /\ stp[shut.cur]["disc"].pc = "rel"

\* ---------------------------------------- properties of the desired set
\* connect() is started for a runner of session i in this step.
ConnectStarted(i) ==
  \E g \in Gens : ~conn[i][g].connecting /\ conn'[i][g].connecting

\* C24 as stated: connect() is started for a session only while the
\* session is in the desired set, whoever calls ensureRunning: the cycle,
\* a reconnect timer or the restart of an auth wipe.
ConnectOnlyDesired ==
  [][\A i \in Sessions : ConnectStarted(i) => i \in desiredIds]_vars

\* The close handler of runner <<i, g>> goes past its DISCONNECTED post in
\* this step and finds the runner stopped on purpose or the session not
\* desired.
CloseOfStopped(i, g) ==
  /\ hand[i][g].close # "none"
  /\ hand'[i][g].close = "none"
  /\ conn[i][g].intentionalStop \/ i \notin desiredIds

\* What that handler leaves undone: no reconnect is scheduled, no auth
\* wipe is started and the auth directory stays.
NothingRestarted(i, g) ==
  /\ ~conn'[i][g].reconnectTimeout
  /\ conn'[i][g].reconnectAttempt <= conn[i][g].reconnectAttempt
  /\ hand'[i][g].wipe = hand[i][g].wipe
  /\ authDir'[i] = authDir[i]
  /\ \A by \in EnsureCallers : ens'[i][by] = ens[i][by]

CloseOfRunning(i, g, kind) ==
  /\ hand[i][g].close = kind
  /\ hand'[i][g].close = "none"
  /\ ~conn[i][g].intentionalStop
  /\ i \in desiredIds

\* fs.rm of the wipe that a close started is done in this step.
WipeRemovedStep(i, g) == hand[i][g].wipe = "rm" /\ hand'[i][g].wipe = "idle"

Registered(i, g) ==
  \/ conn'[i][g].badMacTimestamps = InWindow(Append(conn[i][g].badMacTimestamps, now), now)
  \/ BreakerTrips(conn[i][g]) /\ conn'[i][g].badMacTimestamps = <<>>

\* C28 as stated: every signal-session error of a runner, on a close, on
\* the relay of an inbound message or on an outbound send, is counted in
\* its badMacTimestamps, which hold no timestamp older than
\* BAD_MAC_WINDOW_MS.
SignalErrorsCounted ==
  [][\A i \in Sessions, g \in Gens :
       /\ /\ AnswerStep("close", i, "signal")
          /\ \E n \in SockNs : socks[i][n].gen = g /\ socks'[i][n] # socks[i][n]
          => Registered(i, g)
       /\ /\ AnswerStep("inbound", i, "signal")
          /\ \E n \in SockNs : socks[i][n] = [gen |-> g, st |-> "open"]
          => Registered(i, g)
       /\ /\ AnswerStep("send", i, "noSession") \/ AnswerStep("send", i, "badMac")
          /\ out[i][g].pc = "send"
          => Registered(i, g)
       /\ \A k \in 1..Len(conn'[i][g].badMacTimestamps) :
            now' - conn'[i][g].badMacTimestamps[k] <= BAD_MAC_WINDOW_MS]_vars

\* ------------------------------------------ properties of the retry bound
\* The positions of the events of this kind.
Calls(L, ev) == {s \in 1..Len(L) : L[s].ev = ev}

\* C29: for a queued message sendWithSessionRecovery calls sendMessage at
\* most DECRYPT_RETRY_MAX_ATTEMPTS + 1 = 4 times and refreshSession at most
\* 3 times, and a send that fails with anything but "no matching sessions
\* found" is followed by no refreshSession call and no further send.
SendAttemptsBounded ==
  \A id \in {1} :
    LET L == EventsOf(id)
    IN /\ Cardinality(Calls(L, "send")) <= DECRYPT_RETRY_MAX_ATTEMPTS + 1
       /\ Cardinality(Calls(L, "refresh")) <= DECRYPT_RETRY_MAX_ATTEMPTS
       /\ \A s \in Calls(L, "send") :
            L[s].res \in {"badMac", "error"} =>
              \A t \in (s + 1)..Len(L) : L[t].ev \notin {"send", "refresh"}

\* Three "no matching sessions found" failures, each with its refresh,
\* then a fourth send that failed with another signal-session error, and
\* the message was marked failed.
RetriesExhausted ==
  LET L == EventsOf(1)
  IN /\ Cardinality(Calls(L, "send")) = DECRYPT_RETRY_MAX_ATTEMPTS + 1
     /\ Cardinality(Calls(L, "refresh")) = DECRYPT_RETRY_MAX_ATTEMPTS
     /\ \E s \in Calls(L, "send") : L[s].res = "badMac"
     /\ L[Len(L)].ev = "mark-failed"
     /\ Finished(1)

\* ----------------------------------------- properties of the inbound media
\* The download or the /upload-media post of the message failed, or the
\* post's answer had no media_url.
MediaFailed(L) ==
  \E s \in 1..Len(L) :
    \/ L[s].ev = "download" /\ L[s].res = "throws"
    \/ L[s].ev = "upload" /\ L[s].res \in {"throws", "noUrl"}

\* No messages.upsert handler is waiting.
UpsertOver ==
  \A i \in Sessions, g \in Gens : hand[i][g].upsert.pc = "idle"

\* The loop went through the message: a text was posted to /inbound once,
\* the media of a message with media was asked for.
Handled(m, L) ==
  /\ m.kind = "text" => Cardinality(Calls(L, "inbound")) = 1
  /\ m.kind = "media" => Calls(L, "download") # {}

\* C30: when the media download or the /upload-media post of an inbound
\* message fails, or the post answers without media_url, no POST /inbound
\* is made for that message, and the messages after it in the same upsert
\* are still processed.
MediaFailureSkipsInbound ==
  \A k \in 1..Len(hist.polled) :
    LET m == hist.polled[k]
        L == EventsOf(m.id)
    IN /\ m.kind = "media" /\ MediaFailed(L) => Calls(L, "inbound") = {}
       /\ /\ UpsertOver
          /\ \E j \in 1..(k - 1) :
               hist.polled[j].kind = "media" /\ MediaFailed(EventsOf(hist.polled[j].id))
          => Handled(m, L)

\* An upsert of two messages is over: the upload of the first answered
\* without media_url, the second was posted to /inbound.
SecondPostedAfterFailure ==
  /\ UpsertOver
  /\ Len(hist.polled) = 2
  /\ \E s \in Calls(EventsOf(1), "upload") : EventsOf(1)[s].res = "noUrl"
  /\ Calls(EventsOf(1), "inbound") = {}
  /\ Calls(EventsOf(2), "inbound") # {}

\* --------------------------------------------- properties of the reports
\* C36 as stated: a message one of whose sendMessage calls returned is
\* never reported with /mark-failed, also when its /mark-sent post fails.
SentNeverMarkedFailed ==
  \A id \in {1} :
    LET L == EventsOf(id)
    IN FirstSent(L) # 0 => Calls(L, "mark-failed") = {}

\* ------------------------------------------ properties of the cycle's flag
\* What the manager, the coordinator and the runners hold, the cycle
\* included.
managed == <<cp, desiredIds, runtimes, created, ownership, renewTimers, authDir,
             conn, out, socks, ens, stp, renew, hand, disc>>

\* C33: a discoveryCycle invocation that finds a cycle in flight returns
\* without changing anything, a cycle starts its requests only when none is
\* in flight, and the flag is clear after a cycle ended, by a failed
\* request or after its stop loop.
CyclesSerialized ==
  [][/\ AnswerStep("discovery", 0, "busy") => discoveryRunning(disc) /\ UNCHANGED managed
     /\ disc.pc # "fetch" /\ disc'.pc = "fetch" => disc = IdleDisc
     /\ AnswerStep("discovery", 0, "failed") => disc' = IdleDisc
     /\ disc.pc = "stops" /\ disc'.pc \notin {"stops", "waitstop"} => disc' = IdleDisc]_vars

\* An invocation returned at once while the cycle in flight was waiting
\* for the ensureRunning call of its second target.
SkippedWhileEnsuring ==
  /\ hist.last.op = "discovery" /\ hist.last.res = "busy"
  /\ disc.pc = "wait" /\ disc.k = 2
  /\ ens[2]["disc"].pc # "idle"

\* C34: a cycle whose /eligible-instances request fails changes nothing
\* and calls nothing; a cycle whose /worker-settings request alone fails
\* goes on with the limit FALLBACK_MAX_ACTIVE_INSTANCES.
FailedFetchChangesNothing ==
  [][/\ AnswerStep("discovery", 0, "failed") =>
          /\ UNCHANGED <<cp, desiredIds, runtimes, created, ownership, renewTimers,
                         authDir, conn, out, socks, ens, stp, renew, hand>>
          /\ disc' = IdleDisc
     /\ AnswerStep("discovery", 0, "noSettings") =>
          /\ disc'.n = FALLBACK_MAX_ACTIVE_INSTANCES
          /\ disc'.list = cp.list
          /\ disc'.targets =
               LET t == SliceTargets(stablePrioritize(cp.list), FALLBACK_MAX_ACTIVE_INSTANCES)
               IN [k \in 1..Len(t) |-> t[k].id]]_vars

\* /worker-settings failed under a limit of 1 and two eligible sessions:
\* the cycle is at its first target, with both as targets.
SettingsFailedUnderLimit ==
  /\ hist.last.op = "discovery" /\ hist.last.res = "noSettings"
  /\ cp.n = 1
  /\ disc.pc = "loop" /\ disc.n = 0 /\ disc.targets = <<1, 2>>

\* C35: under a limit of 0 the targets of a cycle are the whole eligible
\* list in priority order, the loop over them calls ensureRunning for each
\* before the stop loop begins, and none is outside the desired set.
NoLimitTargetsAll ==
  disc.pc \notin {"idle", "fetch"} /\ disc.n = 0 =>
    /\ Len(disc.targets) = Len(disc.list)
    /\ \A k \in 1..Len(disc.targets) : RankOf(disc.list, disc.targets[k]) = k - 1
    /\ desiredIds = {disc.list[k].id : k \in 1..Len(disc.list)}
    /\ disc.pc \in {"loop", "wait"} =>
         /\ disc.k \in 1..Len(disc.targets)
         /\ disc.pc = "wait" => ens[disc.targets[disc.k]]["disc"].pc # "idle"
    /\ disc.pc \in {"stops", "waitstop"} => disc.k = Len(disc.targets) + 1

\* The cycle of a limit of 0 with two eligible sessions went through both
\* and is at its stop loop; both hold their lock.
BothStartedWithoutLimit ==
  /\ disc.pc = "stops" /\ disc.n = 0 /\ cp.n = 0
  /\ disc.targets = <<1, 2>>
  /\ ownership = {1, 2}

\* ---------------------------------------- properties of sockets and locks
\* C37 as stated, read while no stopGracefully call of the session is in
\* flight: a session with a live socket has an ownership entry.
SocketMeansOwned ==
  \A i \in Sessions :
    LiveSocks(i) # {} /\ (\A by \in StopCallers : stp[i][by].pc = "idle")
      => i \in ownership

\* C38 as stated: after the breaker tripped for a session at time t, no
\* breaker trips for the session before t + BAD_MAC_COOLDOWN_MS, the
\* runner the restart built included.
OneTripPerCooldown ==
  [][\A i \in Sessions, g \in Gens :
       TripStep(i, g) => \A t \in hist.trips : t.i = i => now >= t.until]_vars

\* C39 as stated, read while no handler of the runner and no ensureRunning
\* or stopGracefully call of the session is waiting: the poll timer of a
\* session's outbound queue is active only while its runner is Open.
PollTimerOnlyWhileOpen ==
  \A i \in Sessions, g \in Gens :
    /\ out[i][g].interval
    /\ hand[i][g] = NoHandlers
    /\ \A by \in EnsureCallers : ens[i][by].pc = "idle"
    /\ \A by \in StopCallers : stp[i][by].pc = "idle"
    => conn[i][g].connected

\* C40 as stated: an acquired=false answer to a renew request whose
\* ownership entry was released and replaced while the request was in
\* flight removes no ownership entry and invokes no onLockLost.
LateRefusalHarmless ==
  [][\A i \in Sessions :
       AnswerStep("renew", i, "refused") /\ i \in hist.stale =>
         /\ ownership' = ownership
         /\ renewTimers' = renewTimers
         /\ stp'[i]["lock"] = stp[i]["lock"]]_vars

\* C31: after /contacts/resolve failed for a session and a jid, no further
\* /contacts/resolve call is issued for that session and jid until the
\* cooldown of that failure has passed.
FailureSilencesResolve ==
  [][\A i \in Sessions, g \in Gens :
       (hand[i][g].resolve = 0 /\ hand'[i][g].resolve # 0)
         => \A r \in hist.nulls :
              (r.i = i /\ r.jid = hand'[i][g].resolve) => r.until <= now]_vars

\* C32: the contact cache of a session never holds more than 500 entries.
CacheBounded ==
  \A i \in Sessions, g \in Gens :
    Cardinality(conn[i][g].contactResolveCache) <= 500
====
